---- MODULE Spec2Model ----
(***************************************************************************)
(* Model of the account pool (crates/anthropic-pool), the credential store *)
(* (crates/anthropic-auth) and the request pipeline                        *)
(* (services/oauth-proxy/src/proxy.rs) of the OAuth gateway.               *)
(*                                                                         *)
(* Every request handler is a task with a program counter; a task's step   *)
(* is the code between two suspension points (lock acquisitions, store     *)
(* access, token-endpoint and upstream I/O).  Time is one clock in         *)
(* milliseconds that serves both Instant::now() and SystemTime::now().     *)
(* The round-robin cursor is an unbounded natural capped by MaxCursor      *)
(* (the usize wrap-around after 2^64 selections is outside the model).     *)
(***************************************************************************)
EXTENDS Integers, Sequences, FiniteSets, TLC

VARIABLES
    account_ids,      \* Pool.account_ids: the ordered list of account ids
    statuses,         \* Pool.statuses: map id -> AccountStatus
    next_index,       \* Pool.next_index: the round-robin cursor
    ids_lock,         \* the RwLock around account_ids: holders and FIFO wait queue
    store,            \* CredentialStore.state: in-memory map id -> Credential
    disk,             \* the credential file's contents
    issued,           \* number of token pairs the token endpoint has issued
    now,              \* the clock, in milliseconds
    max_failover_attempts, \* ProxyState.max_failover_attempts
    metrics,          \* requests_total, errors_total, in_flight
    req,              \* the request tasks' locals
    admin,            \* the admin handler's locals
    sel_log,          \* what a direct caller of select() got back, call by call
    bg,               \* the background refresher's locals
    cls,              \* a call of classify_status: its arguments and its result
    client_headers,   \* the HeaderMap of the inbound request
    client_body,      \* the JSON value the body of the inbound request parses to
    pt,               \* the passthrough provider: its rules, the headers it prepared
    cs,               \* a CredentialStore with its file, step by step
    hp,               \* a call of Pool::health: the pool it read, the JSON it gave
    svc               \* the service state machine: its state, the action it gave last

vars == <<account_ids, statuses, next_index, ids_lock, store, disk, issued, now,
          max_failover_attempts, metrics, req, admin, sel_log, bg, cls,
          client_headers, client_body, pt, cs, hp, svc>>

\* the variables no request or pool action writes
aux == <<bg, cls, client_headers, client_body, pt, cs, hp, svc>>

\* the variables the background refresher does not write
beside_bg == <<cls, client_headers, client_body, pt, cs, hp, svc>>

\* the variables of the pool, the store and the request pipeline
gateway == <<account_ids, statuses, next_index, ids_lock, store, disk, issued, now,
             max_failover_attempts, metrics, req, admin, sel_log>>

----------------------------------------------------------------------------
(* Bounds of the model *)

\* the clock advances by TickMillis per tick, MaxTicks times at most
TickMillis == 30000
MaxTicks == 1
\* the cursor stops being incremented here: no select() starts beyond it
MaxCursor == 6
\* the token endpoint issues at most this many token pairs
MaxIssued == 2
\* inbound requests served in one run
MaxRequests == 2

\* the pool-wide cooldown (Pool.cooldown_duration), in milliseconds
cooldown_duration == 30000

\* pool.rs: let refresh_threshold_millis = 60_000
refresh_threshold_millis == 60000

\* proxy.rs: const MAX_UPSTREAM_ATTEMPTS: u32 = 3
MAX_UPSTREAM_ATTEMPTS == 3

AllIds == {"a", "b", "c"}
Procs == {"r1", "r2"}
Tasks == Procs \cup {"admin"}

\* expires_in values (seconds) the token endpoint answers with
ExpiresIn == {3600}
\* absolute expiry of an enrolled credential that is far from / close to expiry
FarExpiry == 10000000
SoonExpiry == 90000

----------------------------------------------------------------------------
(* Option values and maps *)

None == <<>>
Some(x) == <<x>>

\* HashMap::insert
Insert(m, k, v) == [x \in (DOMAIN m) \cup {k} |-> IF x = k THEN v ELSE m[x]]
\* HashMap::remove
Remove(m, k) == [x \in (DOMAIN m) \ {k} |-> m[x]]
\* HashMap::get
Get(m, k) == IF k \in DOMAIN m THEN Some(m[k]) ELSE None

EmptyMap == [x \in {} |-> 0]

----------------------------------------------------------------------------
(* AccountStatus *)

Available == [tag |-> "Available"]
CoolingDown(until) == [tag |-> "CoolingDown", until |-> until]
Disabled == [tag |-> "Disabled"]

\* Credential and tokens: a token is named by the account the token endpoint
\* issued it for and by its serial number (0: the enrolment's).
AccessToken(owner, n) == [kind |-> "at", owner |-> owner, n |-> n]
RefreshToken(owner, n) == [kind |-> "rt", owner |-> owner, n |-> n]
Credential(access, refresh, expires) ==
    [access |-> access, refresh |-> refresh, expires |-> expires]

----------------------------------------------------------------------------
(* tokio::sync::RwLock around account_ids: FIFO, write-preferring *)

LockFree == [readers |-> [t \in Tasks |-> 0], writer |-> None, queue |-> <<>>]

\* a task that is not queued takes the lock only when nobody waits; a queued
\* task takes it at the head of the queue
Turn(L, t, waiting) ==
    IF waiting THEN L.queue # <<>> /\ Head(L.queue) = t ELSE L.queue = <<>>

CanRead(L, t, waiting) == L.writer = None /\ Turn(L, t, waiting)

CanWrite(L, t, waiting) ==
    /\ L.writer = None
    /\ \A x \in Tasks : L.readers[x] = 0
    /\ Turn(L, t, waiting)

Unqueue(L, waiting) == IF waiting THEN Tail(L.queue) ELSE L.queue

TakeRead(L, t, waiting) ==
    [L EXCEPT !.readers[t] = @ + 1, !.queue = Unqueue(L, waiting)]

ReleaseRead(L, t) == [L EXCEPT !.readers[t] = @ - 1]

TakeWrite(L, t, waiting) ==
    [L EXCEPT !.writer = Some(t), !.queue = Unqueue(L, waiting)]

ReleaseWrite(L) == [L EXCEPT !.writer = None]

Enqueue(L, t) == [L EXCEPT !.queue = Append(@, t)]

----------------------------------------------------------------------------
(* Pool: pure parts of select(), report_error(), count_statuses() *)

\* (variant: the cursor is ignored and every scan starts at the head of the list)
start_index_from_head(cursor, n) == 0

\* (variant: the cursor is read and the increment is lost)
fetch_add_lost(cursor) == [value |-> cursor, next |-> cursor]

\* self.next_index.fetch_add(1, Ordering::Relaxed): the value before the
\* increment and the value stored, in one atomic step
fetch_add(cursor) == [value |-> cursor, next |-> cursor + 1]

\* select(): let start = self.next_index.fetch_add(1, Relaxed) % n
start_index(cursor, n) == cursor % n

\* select(): let idx = (start + offset) % n; ids[idx]
candidate(ids, start, offset) == ids[((start + offset) % Len(ids)) + 1]

cooldown_always_expired(t, until) == TRUE

cooldown_never_expired(t, until) == FALSE

\* select(): if Instant::now() >= *until
cooldown_expired(t, until) == t >= until

\* select(): the status check and lazy transition, under statuses.write()
inspect(sts, id, t) ==
    LET status == Get(sts, id) IN
    IF status = None THEN [available |-> FALSE, statuses |-> sts]
    ELSE IF status[1].tag = "Available" THEN [available |-> TRUE, statuses |-> sts]
    ELSE IF status[1].tag = "CoolingDown" THEN
        IF cooldown_expired(t, status[1].until)
        THEN [available |-> TRUE, statuses |-> Insert(sts, id, Available)]
        ELSE [available |-> FALSE, statuses |-> sts]
    ELSE [available |-> FALSE, statuses |-> sts]

needs_refresh_strictly_before(expires, now_millis) ==
    expires < now_millis + refresh_threshold_millis

\* select(): if credential.expires <= now_millis + refresh_threshold_millis
needs_refresh(expires, now_millis) == expires <= now_millis + refresh_threshold_millis

\* select(): let new_expires = now_millis + (token_response.expires_in * 1000)
new_expires(now_millis, expires_in) == now_millis + expires_in * 1000

count_statuses_by_tag(ids, sts, t) ==
    LET I == 1..Len(ids)
        tag(i) == IF Get(sts, ids[i]) = None THEN "Disabled" ELSE Get(sts, ids[i])[1].tag
    IN [total |-> Len(ids),
        available |-> Cardinality({i \in I : tag(i) = "Available"}),
        cooling |-> Cardinality({i \in I : tag(i) = "CoolingDown"}),
        disabled |-> Cardinality({i \in I : tag(i) = "Disabled"})]

\* count_statuses(): (total, available, cooling, disabled)
count_statuses(ids, sts, t) ==
    LET I == 1..Len(ids)
        st(i) == Get(sts, ids[i])
        isAvail(i) == st(i) # None /\ st(i)[1].tag = "Available"
        isCool(i) == st(i) # None /\ st(i)[1].tag = "CoolingDown"
        lapsed(i) == isCool(i) /\ t >= st(i)[1].until
    IN [total |-> Len(ids),
        available |-> Cardinality({i \in I : isAvail(i) \/ lapsed(i)}),
        cooling |-> Cardinality({i \in I : isCool(i) /\ ~lapsed(i)}),
        disabled |-> Cardinality({i \in I : ~isAvail(i) /\ ~isCool(i)})]

\* Error::PoolExhausted(exhausted_message(total, available, cooling, disabled))
PoolExhausted(total, available, cooling, disabled) ==
    [ok |-> FALSE, total |-> total, available |-> available,
     cooling |-> cooling, disabled |-> disabled]

\* Ok(SelectedAccount { id, access_token })
SelectedAccount(id, access_token) ==
    [ok |-> TRUE, id |-> id, access_token |-> access_token]

report_error_transient_cools(sts, account_id, classification, t) ==
    IF classification = "Permanent"
    THEN Insert(sts, account_id, Disabled)
    ELSE Insert(sts, account_id, CoolingDown(t + cooldown_duration))

\* report_error(): the status map after the report
report_error(sts, account_id, classification, t) ==
    IF classification = "QuotaExceeded"
    THEN Insert(sts, account_id, CoolingDown(t + cooldown_duration))
    ELSE IF classification = "Permanent"
    THEN Insert(sts, account_id, Disabled)
    ELSE sts

----------------------------------------------------------------------------
(* Error classifier (quota.rs).  A body is a sequence of characters. *)

UpperChars == <<"A", "B", "C", "D", "E", "F", "G", "H", "I", "J", "K", "L", "M", "N", "O", "P", "Q", "R", "S", "T", "U", "V", "W", "X", "Y", "Z">>
LowerChars == <<"a", "b", "c", "d", "e", "f", "g", "h", "i", "j", "k", "l", "m", "n", "o", "p", "q", "r", "s", "t", "u", "v", "w", "x", "y", "z">>

\* char::to_lowercase on ASCII
lower_char(c) ==
    IF \E i \in 1..Len(UpperChars) : UpperChars[i] = c
    THEN LowerChars[CHOOSE i \in 1..Len(UpperChars) : UpperChars[i] = c]
    ELSE c

\* str::to_lowercase
to_lowercase(s) == [i \in 1..Len(s) |-> lower_char(s[i])]

\* str::contains
contains(s, pat) ==
    \E k \in 0..(Len(s) - Len(pat)) : \A j \in 1..Len(pat) : s[k + j] = pat[j]

QUOTA_PATTERNS == <<
    <<"5", "-", "h", "o", "u", "r">>,
    <<"5", " ", "h", "o", "u", "r">>,
    <<"r", "o", "l", "l", "i", "n", "g", " ", "w", "i", "n", "d", "o", "w">>,
    <<"u", "s", "a", "g", "e", " ", "l", "i", "m", "i", "t", " ", "f", "o", "r", " ", "y", "o", "u", "r", " ", "p", "l", "a", "n">>,
    <<"s", "u", "b", "s", "c", "r", "i", "p", "t", "i", "o", "n", " ", "u", "s", "a", "g", "e", " ", "l", "i", "m", "i", "t">> >>

classify_429_case_sensitive(body) ==
    IF \E i \in 1..Len(QUOTA_PATTERNS) : contains(body, QUOTA_PATTERNS[i])
    THEN "QuotaExceeded"
    ELSE "Transient"

\* classify_429(body)
classify_429(body) ==
    IF \E i \in 1..Len(QUOTA_PATTERNS) : contains(to_lowercase(body), QUOTA_PATTERNS[i])
    THEN "QuotaExceeded"
    ELSE "Transient"

\* classify_status(status, body)
classify_status(status, body) ==
    IF status = 429 THEN classify_429(body)
    ELSE IF status \in {401, 403} THEN "Permanent"
    ELSE IF status \in {408, 500, 502, 503, 504} THEN "Transient"
    ELSE "Transient"

----------------------------------------------------------------------------
(* CredentialStore *)

\* (variant: the new triple is written to every entry of the mapping)
update_token_every_entry(st, dk, id, access, refresh, expires, write_ok) ==
    LET st2 == [k \in DOMAIN st |-> Credential(access, refresh, expires)]
    IN [ok |-> write_ok /\ id \in DOMAIN st, store |-> st2,
        disk |-> IF write_ok THEN st2 ELSE dk]

\* (variant: an entry is created when the id has none)
update_token_upsert(st, dk, id, access, refresh, expires, write_ok) ==
    LET st2 == Insert(st, id, Credential(access, refresh, expires))
    IN [ok |-> write_ok, store |-> st2, disk |-> IF write_ok THEN st2 ELSE dk]

update_token_not_stored(st, dk, id, access, refresh, expires, write_ok) ==
    [ok |-> id \in DOMAIN st, store |-> st, disk |-> dk]

\* update_token(): NotFound when the id is absent, else the triple is replaced
\* in memory and the file is written (write_ok: write_atomic succeeded)
update_token(st, dk, id, access, refresh, expires, write_ok) ==
    IF id \notin DOMAIN st
    THEN [ok |-> FALSE, store |-> st, disk |-> dk]
    ELSE LET st2 == Insert(st, id, Credential(access, refresh, expires))
         IN [ok |-> write_ok, store |-> st2, disk |-> IF write_ok THEN st2 ELSE dk]

----------------------------------------------------------------------------
(* Token endpoint: refresh_token(refresh) answers a new pair for the owner *)
(* of the refresh token presented, or an error                             *)

RefreshErrors == {"InvalidCredentials", "TokenExchange", "Http"}

TokenResponse(refresh, n, expires_in) ==
    [access_token |-> AccessToken(refresh.owner, n),
     refresh_token |-> RefreshToken(refresh.owner, n),
     expires_in |-> expires_in]

----------------------------------------------------------------------------
(* Request task locals *)

IdleReq ==
    [pc |-> "idle",
     failover |-> 0, attempt |-> 0,
     account_id |-> None, bearer |-> None,
     last_error_response |-> None, response |-> None,
     start |-> 0, offset |-> 0, inspected |-> None,
     credential |-> None, now_millis |-> 0, token_response |-> None,
     persisted |-> None, refresh_error |-> None, result |-> None,
     \* the request's history: the accounts prepare returned, in order, the
     \* sends made in the current failover attempt, what the upstream did with
     \* the last send, the last QuotaExceeded response received, and the
     \* accounts the pipeline reported to the pool
     tried |-> <<>>, sends |-> 0, upstream |-> None, buffered |-> None,
     reported |-> <<>>,
     \* the upstream body a returned response still streams to the client
     stream |-> None,
     \* the headers of the current failover attempt, once prepared
     headers |-> None,
     \* the headers and the body the current failover attempt handed to
     \* prepare_request; the body as prepare_request left it
     in_headers |-> None, in_body |-> None, body_value |-> None,
     \* the value fetch_add gave to the select() in progress
     cursor |-> None]

IdleAdmin == [pc |-> "idle", id |-> None, ops |-> 0]

\* the refresher between cycles; log: the refresh attempts made so far
IdleBg ==
    [pc |-> "idle", ids |-> <<>>, i |-> 0, now_millis |-> 0, credential |-> None,
     token_response |-> None, cycles |-> 0, log |-> <<>>,
     \* the last update_token of the task: the id, whether it had an entry, and
     \* the status the account had at that moment
     persisted |-> None]

\* "authorization": reqwest::header::AUTHORIZATION
AUTHORIZATION == <<"a", "u", "t", "h", "o", "r", "i", "z", "a", "t", "i", "o", "n">>

\* a client that sends one Authorization header
PlainClient == Insert(EmptyMap, AUTHORIZATION, << <<"X">> >>)

\* a body with a model that is not a Haiku model and no system field
PlainBody == [model |-> Some(<<"o", "p", "u", "s">>), system |-> None]

\* the components that take no part in a run: the refresher is not spawned,
\* nothing is being classified, the provider is not the passthrough one
AuxInit ==
    /\ bg = IdleBg
    /\ cls = None
    /\ client_headers = PlainClient
    /\ client_body = PlainBody
    /\ pt = None
    /\ cs = None
    /\ hp = None
    /\ svc = None

\* the locals of select() at its entry
EnterSelect(r) ==
    [r EXCEPT !.pc = "select", !.start = 0, !.offset = 0, !.inspected = None,
              !.credential = None, !.now_millis = 0, !.token_response = None,
              !.persisted = None, !.refresh_error = None, !.result = None,
              !.cursor = None]

\* select() returns: the locals are dropped, the result goes to the caller
LeaveSelect(r, result) ==
    [r EXCEPT !.pc = "sel_ret", !.start = 0, !.offset = 0,
              !.credential = None, !.now_millis = 0, !.token_response = None,
              !.result = Some(result), !.cursor = None]

\* `continue` of the scan loop: the next offset, or the end of the scan
ContinueScan(r) ==
    [r EXCEPT !.pc = IF r.offset + 1 < Len(account_ids) THEN "sel_scan" ELSE "sel_count",
              !.offset = r.offset + 1, !.inspected = None,
              !.credential = None, !.now_millis = 0, !.token_response = None]

----------------------------------------------------------------------------
(* Pool::select, one action per stretch between suspension points *)

\* the id the scan of task p is looking at
Cand(p) == candidate(account_ids, req[p].start, req[p].offset)

\* select() is called while a writer holds or waits for the account list:
\* the task queues for the read lock
SelectWait(p) ==
    /\ req[p].pc = "select"
    /\ ~CanRead(ids_lock, p, FALSE)
    /\ ids_lock' = Enqueue(ids_lock, p)
    /\ req' = [req EXCEPT ![p].pc = "sel_wait"]
    /\ UNCHANGED <<account_ids, statuses, next_index, store, disk, issued, now,
                   max_failover_attempts, metrics, admin, sel_log, aux>>

\* account_ids.read(); n == 0 -> PoolExhausted(0,0,0,0); else fetch_add the cursor
SelectBegin(p) ==
    /\ req[p].pc \in {"select", "sel_wait"}
    /\ CanRead(ids_lock, p, req[p].pc = "sel_wait")
    /\ LET waiting == req[p].pc = "sel_wait"
           n == Len(account_ids)
       IN IF n = 0
          THEN /\ req' = [req EXCEPT ![p] = LeaveSelect(@, PoolExhausted(0, 0, 0, 0))]
               /\ ids_lock' = ReleaseRead(TakeRead(ids_lock, p, waiting), p)
               /\ UNCHANGED next_index
          ELSE /\ req' = [req EXCEPT ![p].pc = "sel_scan",
                                     ![p].start =
                                         start_index(fetch_add(next_index).value, n),
                                     ![p].offset = 0,
                                     ![p].cursor = Some(fetch_add(next_index).value)]
               /\ ids_lock' = TakeRead(ids_lock, p, waiting)
               /\ next_index' = fetch_add(next_index).next
    /\ UNCHANGED <<account_ids, statuses, store, disk, issued, now,
                   max_failover_attempts, metrics, admin, sel_log, aux>>

\* statuses.write(): inspect the candidate, lazily ending a lapsed cooldown
SelectScan(p) ==
    /\ req[p].pc = "sel_scan"
    /\ LET id == Cand(p)
           r == inspect(statuses, id, now)
           \* what the call saw: the status read, the time, the accounts passed
           seen == Some([id |-> id, status |-> Get(statuses, id), at |-> now,
                         offset |-> req[p].offset])
       IN /\ statuses' = r.statuses
          /\ req' = [req EXCEPT ![p] =
                IF r.available
                THEN [@ EXCEPT !.pc = "sel_get", !.inspected = seen]
                ELSE ContinueScan(@)]
    /\ UNCHANGED <<account_ids, next_index, ids_lock, store, disk, issued, now,
                   max_failover_attempts, metrics, admin, sel_log, aux>>

\* credential_store.get(id); the expiry test against the wall clock
SelectGet(p) ==
    /\ req[p].pc = "sel_get"
    /\ LET id == Cand(p)
           credential == Get(store, id)
       IN IF credential = None
          THEN /\ req' = [req EXCEPT ![p].pc = "sel_disable"]
               /\ UNCHANGED ids_lock
          ELSE IF needs_refresh(credential[1].expires, now)
          THEN /\ req' = [req EXCEPT ![p].pc = "sel_refresh",
                                     ![p].credential = credential,
                                     ![p].now_millis = now]
               /\ UNCHANGED ids_lock
          ELSE /\ req' = [req EXCEPT ![p] =
                    LeaveSelect(@, SelectedAccount(id, credential[1].access))]
               /\ ids_lock' = ReleaseRead(ids_lock, p)
    /\ UNCHANGED <<account_ids, statuses, next_index, store, disk, issued, now,
                   max_failover_attempts, metrics, admin, sel_log, aux>>

\* anthropic_auth::refresh_token(&credential.refresh): the endpoint's answer
SelectRefresh(p) ==
    /\ req[p].pc = "sel_refresh"
    /\ \/ /\ issued < MaxIssued
          /\ issued' = issued + 1
          /\ \E e \in ExpiresIn :
                req' = [req EXCEPT ![p].pc = "sel_persist",
                                   ![p].token_response =
                    Some(TokenResponse(req[p].credential[1].refresh, issued + 1, e))]
       \/ /\ \E err \in RefreshErrors :
                req' = [req EXCEPT ![p].pc = "sel_disable",
                                   ![p].refresh_error = Some([id |-> Cand(p), err |-> err])]
          /\ UNCHANGED issued
    /\ UNCHANGED <<account_ids, statuses, next_index, ids_lock, store, disk, now,
                   max_failover_attempts, metrics, admin, sel_log, aux>>

\* credential_store.update_token(..) (its error is only logged), then
\* return Ok(SelectedAccount { id, access_token: token_response.access_token })
SelectPersist(p) ==
    /\ req[p].pc = "sel_persist"
    /\ \E write_ok \in BOOLEAN :
        LET id == Cand(p)
            tr == req[p].token_response[1]
            u == update_token(store, disk, id, tr.access_token, tr.refresh_token,
                              new_expires(req[p].now_millis, tr.expires_in), write_ok)
        IN /\ store' = u.store
           /\ disk' = u.disk
           /\ req' = [req EXCEPT ![p] =
                 LeaveSelect([@ EXCEPT !.persisted = Some(u.ok)],
                             SelectedAccount(id, tr.access_token))]
    /\ ids_lock' = ReleaseRead(ids_lock, p)
    /\ UNCHANGED <<account_ids, statuses, next_index, issued, now,
                   max_failover_attempts, metrics, admin, sel_log, aux>>

status_on_refresh_error_only_invalid(err) ==
    IF err = "InvalidCredentials" THEN Disabled ELSE Available

\* select(): Err(e) => insert(id, Disabled), whatever the error
status_on_refresh_error(err) == Disabled

status_on_give_up_refresh_only(r, id) ==
    IF r.refresh_error # None /\ r.refresh_error[1].id = id
    THEN status_on_refresh_error(r.refresh_error[1].err)
    ELSE Available

\* the status select() writes when it gives up its candidate
status_on_give_up(r, id) ==
    IF r.refresh_error # None /\ r.refresh_error[1].id = id
    THEN status_on_refresh_error(r.refresh_error[1].err)
    ELSE Disabled

\* statuses.write().insert(id, Disabled); continue  (credential missing from
\* the store, or inline refresh failed)
SelectDisable(p) ==
    /\ req[p].pc = "sel_disable"
    /\ statuses' = Insert(statuses, Cand(p), status_on_give_up(req[p], Cand(p)))
    /\ req' = [req EXCEPT ![p] = ContinueScan(@)]
    /\ UNCHANGED <<account_ids, next_index, ids_lock, store, disk, issued, now,
                   max_failover_attempts, metrics, admin, sel_log, aux>>

\* count_statuses() asks for account_ids.read() again while a writer waits
SelectCountWait(p) ==
    /\ req[p].pc = "sel_count"
    /\ ~CanRead(ids_lock, p, FALSE)
    /\ ids_lock' = Enqueue(ids_lock, p)
    /\ req' = [req EXCEPT ![p].pc = "sel_count_wait"]
    /\ UNCHANGED <<account_ids, statuses, next_index, store, disk, issued, now,
                   max_failover_attempts, metrics, admin, sel_log, aux>>

\* count_statuses() and Err(PoolExhausted(..)); both read guards are dropped
SelectCount(p) ==
    /\ req[p].pc \in {"sel_count", "sel_count_wait"}
    /\ CanRead(ids_lock, p, req[p].pc = "sel_count_wait")
    /\ LET c == count_statuses(account_ids, statuses, now)
           L == TakeRead(ids_lock, p, req[p].pc = "sel_count_wait")
       IN /\ req' = [req EXCEPT ![p] =
                LeaveSelect(@, PoolExhausted(c.total, c.available, c.cooling, c.disabled))]
          /\ ids_lock' = ReleaseRead(ReleaseRead(L, p), p)
    /\ UNCHANGED <<account_ids, statuses, next_index, store, disk, issued, now,
                   max_failover_attempts, metrics, admin, sel_log, aux>>

----------------------------------------------------------------------------
(* The clock *)

Tick ==
    /\ now < MaxTicks * TickMillis
    /\ now' = now + TickMillis
    /\ UNCHANGED <<account_ids, statuses, next_index, ids_lock, store, disk, issued,
                   max_failover_attempts, metrics, req, admin, sel_log, aux>>

----------------------------------------------------------------------------
(* Direct callers of the pool's public API *)

\* a task calls pool.select()
ApiSelect(p) ==
    /\ req[p].pc = "idle"
    /\ next_index < MaxCursor
    /\ req' = [req EXCEPT ![p] = EnterSelect(IdleReq)]
    /\ UNCHANGED <<account_ids, statuses, next_index, ids_lock, store, disk, issued,
                   now, max_failover_attempts, metrics, admin, sel_log, aux>>

\* the caller is done with the result of select()
ApiSelectDrop(p) ==
    /\ req[p].pc = "sel_ret"
    /\ req' = [req EXCEPT ![p].pc = "idle"]
    /\ UNCHANGED <<account_ids, statuses, next_index, ids_lock, store, disk, issued,
                   now, max_failover_attempts, metrics, admin, sel_log, aux>>

\* the caller keeps the result of select() in its log
ApiSelectReturn(p) ==
    /\ req[p].pc = "sel_ret"
    /\ req' = [req EXCEPT ![p].pc = "idle"]
    /\ sel_log' = Append(sel_log, req[p].result[1])
    /\ UNCHANGED <<account_ids, statuses, next_index, ids_lock, store, disk, issued,
                   now, max_failover_attempts, metrics, admin, aux>>

\* error classifications a caller can report
Classifications == {"QuotaExceeded", "Permanent", "Transient"}

\* a task calls pool.report_error(id, classification)
ReportError(id, classification) ==
    /\ statuses' = report_error(statuses, id, classification, now)
    /\ UNCHANGED <<account_ids, next_index, ids_lock, store, disk, issued,
                   now, max_failover_attempts, metrics, req, admin, sel_log, aux>>

----------------------------------------------------------------------------
(* Pool::new and the states at start-up *)

\* Pool::new(account_ids, ..): every account Available, cursor 0
PoolNew(ids) ==
    /\ account_ids = ids
    /\ statuses = [id \in {ids[i] : i \in 1..Len(ids)} |-> Available]
    /\ next_index = 0
    /\ ids_lock = LockFree

\* lists of distinct ids
IdLists ==
    {s \in {<<>>} \cup {<<x>> : x \in AllIds}
                  \cup {<<x, y>> : x \in AllIds, y \in AllIds}
                  \cup {<<x, y, z>> : x \in AllIds, y \in AllIds, z \in AllIds} :
        \A i \in 1..Len(s) : \A j \in 1..Len(s) : i # j => s[i] # s[j]}

Enrolled(id, expires) ==
    Credential(AccessToken(id, 0), RefreshToken(id, 0), expires)

\* a sequential caller on a pool whose tokens are far from expiry
InitRoundRobin ==
    /\ \E ids \in IdLists \ {<<>>} : PoolNew(ids)
    /\ store = [id \in AllIds |-> Enrolled(id, FarExpiry)]
    /\ disk = store
    /\ issued = 0
    /\ now = 0
    /\ max_failover_attempts = Len(account_ids)
    /\ metrics = [requests_total |-> 0, errors_total |-> 0, in_flight |-> 0]
    /\ req = [p \in Procs |-> IdleReq]
    /\ admin = IdleAdmin
    /\ sel_log = <<>>
    /\ AuxInit

Caller == "r1"

NextRoundRobin ==
    \/ ApiSelect(Caller)
    \/ SelectBegin(Caller)
    \/ SelectScan(Caller)
    \/ SelectGet(Caller)
    \/ ApiSelectReturn(Caller)
    \/ Tick

SpecRoundRobin == InitRoundRobin /\ [][NextRoundRobin]_vars

----------------------------------------------------------------------------
(* HeaderMap: a map from lower-case header names to the values of that name *)

Digits == {"0", "1", "2", "3", "4", "5", "6", "7", "8", "9"}

Letters == {UpperChars[i] : i \in 1..Len(UpperChars)} \cup
           {LowerChars[i] : i \in 1..Len(LowerChars)}

\* the characters of an HTTP token (the backquote, also one, is left out)
TokenChars ==
    Letters \cup Digits \cup
    {"!", "#", "$", "%", "&", "'", "*", "+", "-", ".", "^", "_", "|", "~"}

\* HeaderName::from_str: a non-empty token, stored in lower case
header_name_from_str(s) ==
    IF Len(s) > 0 /\ \A i \in 1..Len(s) : s[i] \in TokenChars
    THEN Some(to_lowercase(s)) ELSE None

\* HeaderValue::from_str: no control character other than the tab
header_value_from_str(v) ==
    IF \A i \in 1..Len(v) : v[i] \notin {"\n", "\r"} THEN Some(v) ELSE None

\* HeaderMap::insert: the values of the name are replaced by the one value
header_insert(h, name, value) == Insert(h, name, <<value>>)

\* HeaderMap::remove
header_remove(h, name) == Remove(h, name)

HOP_BY_HOP_HEADERS ==
    {<<"c", "o", "n", "n", "e", "c", "t", "i", "o", "n">>,
     <<"k", "e", "e", "p", "-", "a", "l", "i", "v", "e">>,
     <<"p", "r", "o", "x", "y", "-", "a", "u", "t", "h", "e", "n", "t", "i", "c", "a", "t", "e">>,
     <<"p", "r", "o", "x", "y", "-", "a", "u", "t", "h", "o", "r", "i", "z", "a", "t", "i", "o", "n">>,
     <<"t", "e">>,
     <<"t", "r", "a", "i", "l", "e", "r">>,
     <<"t", "r", "a", "n", "s", "f", "e", "r", "-", "e", "n", "c", "o", "d", "i", "n", "g">>,
     <<"u", "p", "g", "r", "a", "d", "e">>}

\* is_hop_by_hop(name): eq_ignore_ascii_case against the list
is_hop_by_hop(name) == to_lowercase(name) \in HOP_BY_HOP_HEADERS

HOST == <<"h", "o", "s", "t">>
CONTENT_LENGTH == <<"c", "o", "n", "t", "e", "n", "t", "-", "l", "e", "n", "g", "t", "h">>

\* proxy_request: the inbound headers without the hop-by-hop ones, Host and
\* Content-Length, every value of a name kept (append)
original_headers(inbound) ==
    [name \in {n \in DOMAIN inbound :
                  ~is_hop_by_hop(n) /\ n # HOST /\ n # CONTENT_LENGTH} |-> inbound[name]]

----------------------------------------------------------------------------
(* AnthropicOAuthProvider::prepare_request: the headers *)

ANTHROPIC_BETA == <<"a", "n", "t", "h", "r", "o", "p", "i", "c", "-", "b", "e", "t", "a">>

REQUIRED_BETA_FLAGS == <<
    <<"o", "a", "u", "t", "h", "-", "2", "0", "2", "5", "-", "0", "4", "-", "2", "0">>,
    <<"i", "n", "t", "e", "r", "l", "e", "a", "v", "e", "d", "-", "t", "h", "i", "n", "k", "i", "n", "g", "-", "2", "0", "2", "5", "-", "0", "5", "-", "1", "4">>,
    <<"c", "o", "n", "t", "e", "x", "t", "-", "m", "a", "n", "a", "g", "e", "m", "e", "n", "t", "-", "2", "0", "2", "5", "-", "0", "6", "-", "2", "7">> >>

USER_AGENT_NAME == <<"u", "s", "e", "r", "-", "a", "g", "e", "n", "t">>
USER_AGENT == <<"c", "l", "a", "u", "d", "e", "-", "c", "l", "i", "/", "2", ".", "0", ".", "7", "6", " ", "(", "e", "x", "t", "e", "r", "n", "a", "l", ",", " ", "s", "d", "k", "-", "c", "l", "i", ")">>
ANTHROPIC_VERSION_NAME == <<"a", "n", "t", "h", "r", "o", "p", "i", "c", "-", "v", "e", "r", "s", "i", "o", "n">>
ANTHROPIC_VERSION == <<"2", "0", "2", "3", "-", "0", "6", "-", "0", "1">>
DIRECT_BROWSER_ACCESS == <<"a", "n", "t", "h", "r", "o", "p", "i", "c", "-", "d", "a", "n", "g", "e", "r", "o", "u", "s", "-", "d", "i", "r", "e", "c", "t", "-", "b", "r", "o", "w", "s", "e", "r", "-", "a", "c", "c", "e", "s", "s">>

\* the text of a token: its kind, its owner and its serial number
token_text(token) ==
    <<token.kind, "-", token.owner, "-">> \o
    <<(<<"0", "1", "2", "3", "4", "5", "6", "7", "8", "9">>)[token.n + 1]>>

\* format!("Bearer {}", selected.access_token)
bearer_value(token) == <<"B", "e", "a", "r", "e", "r", " ">> \o token_text(token)

RECURSIVE split(_, _)
\* str::split(c)
split(s, c) ==
    IF \A i \in 1..Len(s) : s[i] # c THEN <<s>>
    ELSE LET i == CHOOSE k \in 1..Len(s) :
                      s[k] = c /\ \A j \in 1..(k - 1) : s[j] # c
         IN <<SubSeq(s, 1, i - 1)>> \o split(SubSeq(s, i + 1, Len(s)), c)

RECURSIVE trim(_)
\* str::trim
trim(s) ==
    IF s # <<>> /\ Head(s) \in {" ", "\t"} THEN trim(Tail(s))
    ELSE IF s # <<>> /\ s[Len(s)] \in {" ", "\t"} THEN trim(SubSeq(s, 1, Len(s) - 1))
    ELSE s

RECURSIVE push_flags(_, _)
\* the loop over the client's flags: a trimmed, non-empty flag not yet in the
\* list is pushed
push_flags(flags, segments) ==
    IF segments = <<>> THEN flags
    ELSE LET trimmed == trim(Head(segments))
         IN push_flags(IF trimmed # <<>> /\ \A i \in 1..Len(flags) : flags[i] # trimmed
                       THEN Append(flags, trimmed) ELSE flags,
                       Tail(segments))

RECURSIVE join(_)
\* flags.join(",")
join(flags) ==
    IF flags = <<>> THEN <<>>
    ELSE IF Len(flags) = 1 THEN flags[1]
    ELSE flags[1] \o <<",">> \o join(Tail(flags))

\* merge_beta_headers: the required flags, then the flags of the first
\* anthropic-beta value the client sent, as one value
merge_beta_headers(h) ==
    LET flags == IF ANTHROPIC_BETA \in DOMAIN h
                 THEN push_flags(REQUIRED_BETA_FLAGS, split(h[ANTHROPIC_BETA][1], ","))
                 ELSE REQUIRED_BETA_FLAGS
        merged == header_value_from_str(join(flags))
    IN IF merged # None THEN header_insert(h, ANTHROPIC_BETA, merged[1]) ELSE h

oauth_prepare_headers_keep_client(h, access_token) ==
    LET h1 == IF AUTHORIZATION \in DOMAIN h THEN h
              ELSE header_insert(h, AUTHORIZATION, bearer_value(access_token))
        h2 == merge_beta_headers(h1)
        h3 == header_insert(h2, DIRECT_BROWSER_ACCESS, <<"t", "r", "u", "e">>)
        h4 == header_insert(h3, USER_AGENT_NAME, USER_AGENT)
    IN header_insert(h4, ANTHROPIC_VERSION_NAME, ANTHROPIC_VERSION)

\* prepare_request after select(): the client's Authorization is removed, the
\* Bearer of the selected account inserted, the beta flags merged, the three
\* fixed headers inserted
oauth_prepare_headers(h, access_token) ==
    LET h1 == header_insert(header_remove(h, AUTHORIZATION), AUTHORIZATION,
                            bearer_value(access_token))
        h2 == merge_beta_headers(h1)
        h3 == header_insert(h2, DIRECT_BROWSER_ACCESS, <<"t", "r", "u", "e">>)
        h4 == header_insert(h3, USER_AGENT_NAME, USER_AGENT)
    IN header_insert(h4, ANTHROPIC_VERSION_NAME, ANTHROPIC_VERSION)

\* pub const REQUIRED_SYSTEM_PROMPT_PREFIX
REQUIRED_SYSTEM_PROMPT_PREFIX == <<
    "Y", "o", "u", " ", "a", "r", "e", " ", "C", "l", "a", "u", "d", "e",
    " ", "C", "o", "d", "e", ",", " ", "A", "n", "t", "h", "r", "o", "p",
    "i", "c", "'", "s", " ", "o", "f", "f", "i", "c", "i", "a", "l", " ",
    "C", "L", "I", " ", "f", "o", "r", " ", "C", "l", "a", "u", "d", "e", "." >>

\* str::starts_with
starts_with(s, pat) == Len(s) >= Len(pat) /\ SubSeq(s, 1, Len(pat)) = pat

\* a JSON string as the value of "system"; a value that is no string
JsonString(text) == [kind |-> "string", text |-> text]
JsonArray == [kind |-> "array", text |-> <<>>]

\* extract_model(body): body.get("model").and_then(|m| m.as_str())
extract_model(body) == body.model

\* inject_system_prompt(body): nothing for a body without a model or with a
\* Haiku model; the prefix as the system field when there is none; the prefix
\* and a space before a system string that does not start with the prefix
inject_system_prompt(body) ==
    IF extract_model(body) = None THEN body
    ELSE IF contains(to_lowercase(extract_model(body)[1]), <<"h", "a", "i", "k", "u">>)
    THEN body
    ELSE IF body.system = None
    THEN [body EXCEPT !.system = Some(JsonString(REQUIRED_SYSTEM_PROMPT_PREFIX))]
    ELSE IF /\ body.system[1].kind = "string"
            /\ ~starts_with(body.system[1].text, REQUIRED_SYSTEM_PROMPT_PREFIX)
    THEN [body EXCEPT !.system =
             Some(JsonString(REQUIRED_SYSTEM_PROMPT_PREFIX \o <<" ">> \o body.system[1].text))]
    ELSE body

attempt_headers_carried(original, previous) ==
    IF previous = None THEN original ELSE previous[1]

\* the failover loop: let mut headers = original_headers.clone()
attempt_headers(original, previous) == original

\* the failover loop: let mut body_value = parsed_body.clone().unwrap_or(Null)
attempt_body(parsed, previous) == parsed

----------------------------------------------------------------------------
(* proxy_request in OAuth mode (provider = AnthropicOAuthProvider) *)

\* what the upstream does with one send
Timeout == [kind |-> "timeout", status |-> 0, body |-> <<>>]
ConnectError == [kind |-> "connect", status |-> 0, body |-> <<>>]
Upstream(status, body) == [kind |-> "response", status |-> status, body |-> body]

\* the upstream's answers
UpstreamResponses ==
    {Upstream(200, <<"o", "k">>),
     Upstream(429, <<"5", "-", "H", "o", "u", "r">>),
     Upstream(429, <<>>),
     Upstream(401, <<"x">>),
     Upstream(403, <<"x">>)}

\* error_response(status, message, request_id)
error_response(status) ==
    [status |-> status, body |-> <<"proxy_error">>, origin |-> "proxy"]

\* build_buffered_response / build_streaming_response: upstream status and body
upstream_response(o) == [status |-> o.status, body |-> o.body, origin |-> "upstream"]

\* status.is_client_error() || status.is_server_error()
is_error_status(status) == status >= 400 /\ status <= 599

on_classification_never_failover(classification, failover, max_failovers) ==
    [report |-> classification # "Transient", next |-> "return",
     error |-> classification # "Transient"]

on_classification_always_failover(classification, failover, max_failovers) ==
    [report |-> classification # "Transient",
     next |-> IF classification # "Transient" /\ failover < max_failovers - 1
              THEN "failover" ELSE "return",
     error |-> classification = "Permanent" \/
               (classification = "QuotaExceeded" /\ ~(failover < max_failovers - 1))]

on_classification_reports_transient(classification, failover, max_failovers) ==
    [report |-> TRUE,
     next |-> IF classification = "QuotaExceeded" /\ failover < max_failovers - 1
              THEN "failover" ELSE "return",
     error |-> classification = "Permanent" \/
               (classification = "QuotaExceeded" /\ ~(failover < max_failovers - 1))]

\* the match on the classification (proxy.rs 244-303) and the two tests after the
\* retry loop (400-415): whether the account is reported, whether the request
\* fails over or returns, whether errors_total is incremented
on_classification(classification, failover, max_failovers) ==
    IF classification = "QuotaExceeded" THEN
        [report |-> TRUE,
         next |-> IF failover < max_failovers - 1 THEN "failover" ELSE "return",
         error |-> ~(failover < max_failovers - 1)]
    ELSE IF classification = "Permanent" THEN
        [report |-> TRUE, next |-> "return", error |-> TRUE]
    ELSE
        [report |-> FALSE, next |-> "return", error |-> FALSE]

retry_timeout_once_more(attempt) == attempt < MAX_UPSTREAM_ATTEMPTS

\* Err(e) if e.is_timeout() && attempt < MAX_UPSTREAM_ATTEMPTS - 1 => continue
retry_timeout(attempt) == attempt < MAX_UPSTREAM_ATTEMPTS - 1

send_retried_on_any_error(o, attempt) == retry_timeout(attempt)

\* the first arm of the match on a failed send: only a timeout, and only before
\* the last attempt, goes round the retry loop again
send_retried(o, attempt) == o.kind = "timeout" /\ retry_timeout(attempt)

\* the head of `for failover in 0..max_failovers`: prepare_request calls select()
EnterFailover(r, failover) ==
    EnterSelect([r EXCEPT !.failover = failover, !.attempt = 0, !.account_id = None,
                          !.bearer = None, !.last_error_response = None,
                          !.sends = 0, !.headers = None,
                          !.in_headers =
                              Some(attempt_headers(original_headers(client_headers),
                                                   r.headers)),
                          !.in_body = Some(attempt_body(client_body, r.body_value)),
                          !.body_value = None])

\* the handler returns `response`: its locals are dropped
Return(r, response) ==
    [r EXCEPT !.pc = "done", !.response = Some(response),
              !.failover = 0, !.attempt = 0, !.account_id = None, !.bearer = None,
              !.last_error_response = None, !.start = 0, !.offset = 0,
              !.inspected = None, !.credential = None, !.now_millis = 0,
              !.token_response = None, !.persisted = None, !.refresh_error = None,
              !.result = None, !.headers = None,
              !.in_headers = None, !.in_body = None, !.body_value = None]

Returned_error_not_counted(m, error) == [m EXCEPT !.in_flight = @ - 1]

Returned_guard_not_dropped(m, error) ==
    [m EXCEPT !.errors_total = IF error THEN @ + 1 ELSE @]

\* the counters at a return: errors_total, and the InFlightGuard's drop
Returned(m, error) ==
    [m EXCEPT !.errors_total = IF error THEN @ + 1 ELSE @, !.in_flight = @ - 1]

\* the handler tasks are interchangeable: a connection is served by the first
\* task, and by the second only while the first is busy
SlotBefore(q, p) == q = "r1" /\ p = "r2"

\* requests_total and in_flight are incremented, the guard is created
Ingest(p) ==
    /\ req[p].pc \in {"idle", "done"}
    /\ \A q \in Procs : SlotBefore(q, p) => req[q].pc \notin {"idle", "done"}
    /\ metrics.requests_total < MaxRequests
    /\ metrics' = [metrics EXCEPT !.requests_total = @ + 1, !.in_flight = @ + 1]
    /\ req' = [req EXCEPT ![p] = [IdleReq EXCEPT !.pc = "read_body"]]
    /\ UNCHANGED <<account_ids, statuses, next_index, ids_lock, store, disk, issued,
                   now, max_failover_attempts, admin, sel_log, aux>>

\* to_bytes(body, MAX_BODY_SIZE) and serde_json::from_slice; then the first
\* iteration of the failover loop, or unreachable!() when the loop is empty
ReadBody(p) ==
    /\ req[p].pc = "read_body"
    /\ \E outcome \in {"ok", "too_large", "bad_json"} :
        IF outcome # "ok"
        THEN /\ req' = [req EXCEPT ![p] = Return(@, error_response(400))]
             /\ metrics' = Returned(metrics, TRUE)
        ELSE IF 0 < max_failover_attempts
        THEN /\ req' = [req EXCEPT ![p] = EnterFailover(@, 0)]
             /\ UNCHANGED metrics
        ELSE /\ req' = [req EXCEPT ![p].pc = "panic"]
             /\ metrics' = Returned(metrics, FALSE)
    /\ UNCHANGED <<account_ids, statuses, next_index, ids_lock, store, disk, issued,
                   now, max_failover_attempts, admin, sel_log, aux>>

\* prepare_request after pool.select(): Err -> 503; Ok -> the Bearer header of
\* the selected account is injected and its id returned
PrepareDone(p) ==
    /\ req[p].pc = "sel_ret"
    /\ LET res == req[p].result[1] IN
       IF ~res.ok
       THEN /\ req' = [req EXCEPT ![p] = Return(@, error_response(503))]
            /\ metrics' = Returned(metrics, TRUE)
       ELSE /\ req' = [req EXCEPT ![p].pc = "send",
                                  ![p].account_id = Some(res.id),
                                  ![p].bearer = Some(res.access_token),
                                  ![p].headers =
                                      Some(oauth_prepare_headers(
                                               req[p].in_headers[1],
                                               res.access_token)),
                                  ![p].body_value =
                                      Some(inject_system_prompt(req[p].in_body[1])),
                                  ![p].tried = Append(@, res.id),
                                  ![p].attempt = 0,
                                  ![p].inspected = None,
                                  ![p].persisted = None,
                                  ![p].refresh_error = None,
                                  ![p].result = None]
            /\ UNCHANGED metrics
    /\ UNCHANGED <<account_ids, statuses, next_index, ids_lock, store, disk, issued,
                   now, max_failover_attempts, admin, sel_log, aux>>

\* req.send().await answers Err(e): a timeout is retried on the same account,
\* the last one answered 504; any other transport error is answered 502
SendFailed(p) ==
    /\ req[p].pc = "send"
    /\ \E o \in {Timeout, ConnectError} :
        LET r == [req[p] EXCEPT !.upstream = Some(o), !.sends = @ + 1] IN
        IF send_retried(o, r.attempt)
        THEN /\ req' = [req EXCEPT ![p] = [r EXCEPT !.attempt = @ + 1]]
             /\ UNCHANGED metrics
        ELSE /\ req' = [req EXCEPT ![p] =
                    Return(r, error_response(IF o.kind = "timeout" THEN 504 ELSE 502))]
             /\ metrics' = Returned(metrics, TRUE)
    /\ UNCHANGED <<account_ids, statuses, next_index, ids_lock, store, disk, issued,
                   now, max_failover_attempts, admin, sel_log, aux>>

\* req.send().await answers Ok(response): what follows up to the next
\* suspension point or return
Send(p) ==
    /\ req[p].pc = "send"
    /\ \E o \in UpstreamResponses :
        LET r == [req[p] EXCEPT !.upstream = Some(o), !.sends = @ + 1]
            acct == req[p].account_id[1]
        IN
        IF ~is_error_status(o.status) THEN
            /\ req' = [req EXCEPT ![p] =
                  Return([r EXCEPT !.stream = Some(o.body)], upstream_response(o))]
            /\ metrics' = Returned(metrics, FALSE)
            /\ UNCHANGED statuses
        ELSE
            LET c == classify_status(o.status, o.body)
                d == on_classification(c, r.failover, max_failover_attempts)
                r1 == IF c = "QuotaExceeded" THEN [r EXCEPT !.buffered = Some(o)] ELSE r
                r2 == IF d.report THEN [r1 EXCEPT !.reported = Append(@, acct)] ELSE r1
            IN /\ statuses' = IF d.report THEN report_error(statuses, acct, c, now)
                              ELSE statuses
               /\ IF d.next = "failover"
                  THEN /\ req' = [req EXCEPT ![p] = EnterFailover(r2, r.failover + 1)]
                       /\ UNCHANGED metrics
                  ELSE /\ req' = [req EXCEPT ![p] = Return(r2, upstream_response(o))]
                       /\ metrics' = Returned(metrics, d.error)
    /\ UNCHANGED <<account_ids, next_index, ids_lock, store, disk, issued,
                   now, max_failover_attempts, admin, sel_log, aux>>

----------------------------------------------------------------------------
(* Admin handlers: delete_account and the end of the enrolment flow *)

\* admin operations in one run
MaxAdminOps == 1

\* DELETE /admin/accounts/:id arrives
AdminDelete(id) ==
    /\ admin.pc = "idle"
    /\ admin.ops < MaxAdminOps
    /\ admin' = [pc |-> "rm_pool", id |-> Some(id), ops |-> admin.ops + 1]
    /\ UNCHANGED <<account_ids, statuses, next_index, ids_lock, store, disk, issued,
                   now, max_failover_attempts, metrics, req, sel_log, aux>>

\* account_ids.write() is not free: the handler queues
AdminWait ==
    /\ admin.pc \in {"rm_pool", "add_pool"}
    /\ ~CanWrite(ids_lock, "admin", FALSE)
    /\ ids_lock' = Enqueue(ids_lock, "admin")
    /\ admin' = [admin EXCEPT !.pc = IF admin.pc = "rm_pool" THEN "rm_pool_wait"
                                     ELSE "add_pool_wait"]
    /\ UNCHANGED <<account_ids, statuses, next_index, store, disk, issued,
                   now, max_failover_attempts, metrics, req, sel_log, aux>>

\* ids.retain(|id| id != account_id)
retain_other(ids, id) == SelectSeq(ids, LAMBDA x : x # id)

\* Pool::remove_account
AdminRemoveAccount ==
    /\ admin.pc \in {"rm_pool", "rm_pool_wait"}
    /\ CanWrite(ids_lock, "admin", admin.pc = "rm_pool_wait")
    /\ ids_lock' = ReleaseWrite(TakeWrite(ids_lock, "admin", admin.pc = "rm_pool_wait"))
    /\ account_ids' = retain_other(account_ids, admin.id[1])
    /\ statuses' = Remove(statuses, admin.id[1])
    /\ admin' = [admin EXCEPT !.pc = "rm_store"]
    /\ UNCHANGED <<next_index, store, disk, issued,
                   now, max_failover_attempts, metrics, req, sel_log, aux>>

\* CredentialStore::remove(id): the file is written only when an entry was removed
AdminStoreRemove ==
    /\ admin.pc = "rm_store"
    /\ LET id == admin.id[1] IN
       IF id \in DOMAIN store
       THEN /\ store' = Remove(store, id)
            /\ \E write_ok \in BOOLEAN : disk' = IF write_ok THEN store' ELSE disk
       ELSE UNCHANGED <<store, disk>>
    /\ admin' = [admin EXCEPT !.pc = "idle", !.id = None]
    /\ UNCHANGED <<account_ids, statuses, next_index, ids_lock, issued,
                   now, max_failover_attempts, metrics, req, sel_log, aux>>

\* the enrolment completes: exchange_code answered, credential_store.add(id, ..);
\* pool.add_account follows unless the write failed
AdminAdd(id) ==
    /\ admin.pc = "idle"
    /\ admin.ops < MaxAdminOps
    /\ issued < MaxIssued
    /\ issued' = issued + 1
    /\ \E e \in ExpiresIn : \E write_ok \in BOOLEAN :
        /\ store' = Insert(store, id,
                Credential(AccessToken(id, issued + 1), RefreshToken(id, issued + 1),
                           new_expires(now, e)))
        /\ disk' = IF write_ok THEN store' ELSE disk
        /\ admin' = IF write_ok
                    THEN [pc |-> "add_pool", id |-> Some(id), ops |-> admin.ops + 1]
                    ELSE [pc |-> "idle", id |-> None, ops |-> admin.ops + 1]
    /\ UNCHANGED <<account_ids, statuses, next_index, ids_lock,
                   now, max_failover_attempts, metrics, req, sel_log, aux>>

\* Pool::add_account
AdminAddAccount ==
    /\ admin.pc \in {"add_pool", "add_pool_wait"}
    /\ CanWrite(ids_lock, "admin", admin.pc = "add_pool_wait")
    /\ ids_lock' = ReleaseWrite(TakeWrite(ids_lock, "admin", admin.pc = "add_pool_wait"))
    /\ LET id == admin.id[1] IN
       /\ account_ids' = IF \E i \in 1..Len(account_ids) : account_ids[i] = id
                         THEN account_ids ELSE Append(account_ids, id)
       /\ statuses' = Insert(statuses, id, Available)
    /\ admin' = [admin EXCEPT !.pc = "idle", !.id = None]
    /\ UNCHANGED <<next_index, store, disk, issued,
                   now, max_failover_attempts, metrics, req, sel_log, aux>>

----------------------------------------------------------------------------
(* Background refresher: spawn_refresh_task and refresh_cycle *)

\* refresh cycles in one run
MaxCycles == 2

\* the `threshold` the task is spawned with, in milliseconds
threshold_millis == 900000

\* refresh_cycle(): if credential.expires > now_millis + threshold_millis { continue }
cycle_skips(expires, now_millis) == expires > now_millis + threshold_millis

cycle_status_on_error_always_disabled(sts, id, err) == Insert(sts, id, Disabled)

\* refresh_cycle(): Err(InvalidCredentials) => set_status(id, Disabled);
\* Err(e) => only logged
cycle_status_on_error(sts, id, err) ==
    IF err = "InvalidCredentials" THEN Insert(sts, id, Disabled) ELSE sts

\* `continue` / the end of the loop body: the next id, or the cycle is over
CycleNext(b) ==
    [b EXCEPT !.pc = IF b.i < Len(b.ids) THEN "get" ELSE "idle",
              !.i = IF b.i < Len(b.ids) THEN b.i + 1 ELSE 0,
              !.ids = IF b.i < Len(b.ids) THEN b.ids ELSE <<>>,
              !.now_millis = IF b.i < Len(b.ids) THEN b.now_millis ELSE 0,
              !.credential = None, !.token_response = None]

\* ticker.tick() fires: pool.account_ids() snapshot, now_millis read once
BgCycle ==
    /\ bg.pc = "idle"
    /\ bg.cycles < MaxCycles
    /\ CanRead(ids_lock, "bg", FALSE)
    /\ bg' = CycleNext([bg EXCEPT !.ids = account_ids, !.i = 0, !.now_millis = now,
                                  !.cycles = @ + 1])
    /\ UNCHANGED <<account_ids, statuses, next_index, ids_lock, store, disk, issued,
                   now, max_failover_attempts, metrics, req, admin, sel_log>>
    /\ UNCHANGED beside_bg

\* store.get(id): None => continue; not expiring within threshold => continue
BgGet ==
    /\ bg.pc = "get"
    /\ LET credential == Get(store, bg.ids[bg.i]) IN
       bg' = IF credential = None \/ cycle_skips(credential[1].expires, bg.now_millis)
             THEN CycleNext(bg)
             ELSE [bg EXCEPT !.pc = "refresh", !.credential = credential]
    /\ UNCHANGED <<account_ids, statuses, next_index, ids_lock, store, disk, issued,
                   now, max_failover_attempts, metrics, req, admin, sel_log>>
    /\ UNCHANGED beside_bg

\* refresh_token(client, &credential.refresh) answers; an error is handled at once
BgRefresh ==
    /\ bg.pc = "refresh"
    /\ LET id == bg.ids[bg.i] IN
       \/ /\ issued < MaxIssued
          /\ issued' = issued + 1
          /\ \E e \in ExpiresIn :
                bg' = [bg EXCEPT !.pc = "persist",
                                 !.token_response =
                    Some(TokenResponse(bg.credential[1].refresh, issued + 1, e))]
          /\ UNCHANGED statuses
       \/ /\ \E err \in RefreshErrors :
                /\ statuses' = cycle_status_on_error(statuses, id, err)
                /\ bg' = CycleNext([bg EXCEPT !.log =
                                        Append(@, [id |-> id, outcome |-> err])])
          /\ UNCHANGED issued
    /\ UNCHANGED <<account_ids, next_index, ids_lock, store, disk,
                   now, max_failover_attempts, metrics, req, admin, sel_log>>
    /\ UNCHANGED beside_bg

\* (variant: a refreshed account is made Available again)
BgPersist_resets_status ==
    /\ bg.pc = "persist"
    /\ \E write_ok \in BOOLEAN :
        LET id == bg.ids[bg.i]
            tr == bg.token_response[1]
            u == update_token(store, disk, id, tr.access_token, tr.refresh_token,
                              new_expires(bg.now_millis, tr.expires_in), write_ok)
        IN /\ store' = u.store
           /\ disk' = u.disk
           /\ statuses' = Insert(statuses, id, Available)
           /\ bg' = CycleNext([bg EXCEPT
                    !.log = Append(@, [id |-> id, outcome |-> "ok"]),
                    !.persisted = Some([id |-> id, found |-> id \in DOMAIN store,
                                        status |-> Get(statuses, id)])])
    /\ UNCHANGED <<account_ids, next_index, ids_lock, issued,
                   now, max_failover_attempts, metrics, req, admin, sel_log>>
    /\ UNCHANGED beside_bg

\* store.update_token(id, ..) (its error is only logged)
BgPersist ==
    /\ bg.pc = "persist"
    /\ \E write_ok \in BOOLEAN :
        LET id == bg.ids[bg.i]
            tr == bg.token_response[1]
            u == update_token(store, disk, id, tr.access_token, tr.refresh_token,
                              new_expires(bg.now_millis, tr.expires_in), write_ok)
        IN /\ store' = u.store
           /\ disk' = u.disk
           /\ bg' = CycleNext([bg EXCEPT
                    !.log = Append(@, [id |-> id, outcome |-> "ok"]),
                    !.persisted = Some([id |-> id, found |-> id \in DOMAIN store,
                                        status |-> Get(statuses, id)])])
    /\ UNCHANGED <<account_ids, statuses, next_index, ids_lock, issued,
                   now, max_failover_attempts, metrics, req, admin, sel_log>>
    /\ UNCHANGED beside_bg

----------------------------------------------------------------------------
(* The gateway in OAuth mode: request tasks, the admin handler, the clock *)

\* the ids the gateway manages in this model
GatewayIds == {"a", "b"}

InitialPools == {<<>>, <<"a">>, <<"a", "b">>}

\* the credential file at start-up: an entry far from expiry, one close to
\* expiry, or none, for each account of the pool
InitialStores(ids) ==
    LET S == {ids[i] : i \in 1..Len(ids)}
        Expiries(T) == [T -> {FarExpiry, SoonExpiry}]
    IN UNION {{[id \in T |-> Enrolled(id, e[id])] : e \in Expiries(T)} : T \in SUBSET S}

InitGateway ==
    /\ \E ids \in InitialPools : PoolNew(ids)
    /\ store \in InitialStores(account_ids)
    /\ disk = store
    /\ issued = 0
    /\ now = 0
    /\ max_failover_attempts = Len(account_ids)
    /\ metrics = [requests_total |-> 0, errors_total |-> 0, in_flight |-> 0]
    /\ req = [p \in Procs |-> IdleReq]
    /\ admin = IdleAdmin
    /\ sel_log = <<>>

Init == InitGateway /\ AuxInit

\* one request task, the admin handler and the clock
Next ==
    \/ Ingest(Caller)
    \/ ReadBody(Caller)
    \/ SelectWait(Caller)
    \/ SelectBegin(Caller)
    \/ SelectScan(Caller)
    \/ SelectGet(Caller)
    \/ SelectRefresh(Caller)
    \/ SelectPersist(Caller)
    \/ SelectDisable(Caller)
    \/ SelectCountWait(Caller)
    \/ SelectCount(Caller)
    \/ PrepareDone(Caller)
    \/ Send(Caller)
    \/ SendFailed(Caller)
    \/ \E id \in GatewayIds : AdminDelete(id)
    \/ \E id \in GatewayIds : AdminAdd(id)
    \/ AdminWait
    \/ AdminRemoveAccount
    \/ AdminStoreRemove
    \/ AdminAddAccount
    \/ Tick

Spec == Init /\ [][Next]_vars

\* two request tasks in flight together, against an upstream that answers
NextConcurrent ==
    \/ \E p \in Procs : Ingest(p)
    \/ \E p \in Procs : ReadBody(p)
    \/ \E p \in Procs : SelectBegin(p)
    \/ \E p \in Procs : SelectScan(p)
    \/ \E p \in Procs : SelectGet(p)
    \/ \E p \in Procs : SelectRefresh(p)
    \/ \E p \in Procs : SelectPersist(p)
    \/ \E p \in Procs : SelectDisable(p)
    \/ \E p \in Procs : SelectCount(p)
    \/ \E p \in Procs : PrepareDone(p)
    \/ \E p \in Procs : Send(p)
    \/ Tick

SpecConcurrent == Init /\ [][NextConcurrent]_vars

\* the gateway started with at most one account: two request tasks running
\* the whole pipeline with every way a send can end, and the clock
InitInFlight == Init /\ Len(account_ids) <= 1

NextInFlight ==
    \/ NextConcurrent
    \/ \E p \in Procs : SendFailed(p)

SpecInFlight == InitInFlight /\ [][NextInFlight]_vars

\* callers of the pool's API: one task selecting, reports arriving at any time
InitApi ==
    /\ \E ids \in InitialPools \ {<<>>} : PoolNew(ids)
    /\ store = [id \in GatewayIds |-> Enrolled(id, FarExpiry)]
    /\ disk = store
    /\ issued = 0
    /\ now = 0
    /\ max_failover_attempts = Len(account_ids)
    /\ metrics = [requests_total |-> 0, errors_total |-> 0, in_flight |-> 0]
    /\ req = [p \in Procs |-> IdleReq]
    /\ admin = IdleAdmin
    /\ sel_log = <<>>
    /\ AuxInit

NextApi ==
    \/ ApiSelect(Caller)
    \/ SelectBegin(Caller)
    \/ SelectScan(Caller)
    \/ SelectGet(Caller)
    \/ SelectCount(Caller)
    \/ ApiSelectDrop(Caller)
    \/ \E id \in GatewayIds : \E c \in Classifications : ReportError(id, c)
    \/ Tick

SpecApi == InitApi /\ [][NextApi]_vars

----------------------------------------------------------------------------
(* C1 *)

\* a direct caller of ApiSelect on a pool that stays Available and far from expiry
Quiet == \A i \in 1..Len(account_ids) : Get(statuses, account_ids[i]) = Some(Available)

\* how often id occurs in log[from .. from + len - 1]
Occurrences(log, from, len, id) ==
    Cardinality({i \in from..(from + len - 1) : log[i].ok /\ log[i].id = id})

\* C1: sequential select() calls on an unchanged, all-Available pool with tokens
\* far from expiry return the accounts in list order cyclically (the i-th call,
\* from 0, returns ids[i mod n]), so every window of n*k successive calls holds
\* every account exactly k times.
C1_RoundRobin ==
    LET n == Len(account_ids) IN
    /\ \A i \in 1..Len(sel_log) :
          /\ sel_log[i].ok
          /\ sel_log[i].id = account_ids[((i - 1) % n) + 1]
    /\ \A from \in 1..Len(sel_log) : \A k \in 1..Len(sel_log) :
          from + n * k - 1 <= Len(sel_log) =>
             \A j \in 1..n : Occurrences(sel_log, from, n * k, account_ids[j]) = k

C1_Witness ==
    /\ Len(account_ids) = 3
    /\ Len(sel_log) = 6
    /\ Quiet

\* the refresher, error reports arriving at any time, the clock
NextRefresher ==
    \/ BgCycle
    \/ BgGet
    \/ BgRefresh
    \/ BgPersist
    \/ \E id \in GatewayIds : \E c \in Classifications : ReportError(id, c)
    \/ Tick

SpecRefresher == Init /\ [][NextRefresher]_vars

----------------------------------------------------------------------------
(* Predicates on states and steps used by the properties below *)

\* id is cooling down at time t: CoolingDown{until} with t < until
IsCooling(sts, id, t) ==
    id \in DOMAIN sts /\ sts[id].tag = "CoolingDown" /\ t < sts[id].until

\* id's cooldown has lapsed at time t: CoolingDown{until} with t >= until
IsLapsed(sts, id, t) ==
    id \in DOMAIN sts /\ sts[id].tag = "CoolingDown" /\ t >= sts[id].until

HasTag(sts, id, tag) == id \in DOMAIN sts /\ sts[id].tag = tag

\* the step on which task p's select() returns
SelectReturns(p) == req[p].pc # "sel_ret" /\ req'[p].pc = "sel_ret"

\* a step of task p out of req.send().await
SendStep(p) == req[p].pc = "send" /\ req'[p] # req[p]

\* the call of task p holds an account it found eligible
HoldsCandidate(r) == r.pc \in {"sel_get", "sel_refresh", "sel_persist", "sel_disable"}

IsSuccess(o) == o.kind = "response" /\ ~is_error_status(o.status)

IsQuotaExceeded(o) ==
    /\ o.kind = "response"
    /\ is_error_status(o.status)
    /\ classify_status(o.status, o.body) = "QuotaExceeded"

----------------------------------------------------------------------------
(* C2 *)

\* C2 (as the code has it): no select() returns an account that was
\* CoolingDown{until} with now < until when the call inspected it, whatever
\* report_error() calls of other requests interleave with the call.
C2_SkipCoolingDown ==
    \A p \in Procs :
        (req[p].pc = "sel_ret" /\ req[p].result[1].ok) =>
            LET seen == req[p].inspected[1] IN
            /\ seen.id = req[p].result[1].id
            /\ seen.status # None
            /\ ~(seen.status[1].tag = "CoolingDown" /\ seen.at < seen.status[1].until)

\* a call that passed the cooling-down a returns b, the report on a having come
\* from the other request
C2_Witness ==
    /\ account_ids = <<"a", "b">>
    /\ req["r2"].pc = "sel_ret"
    /\ req["r2"].result[1].ok
    /\ req["r2"].result[1].id = "b"
    /\ req["r2"].inspected[1].offset = 1
    /\ IsCooling(statuses, "a", now)
    /\ req["r1"].buffered # None

\* C2 as stated: at the moment a select() returns account b, b is not
\* CoolingDown{until} with now < until.
C2_Original ==
    [][\A p \in Procs :
          (SelectReturns(p) /\ req'[p].result[1].ok) =>
              ~IsCooling(statuses', req'[p].result[1].id, now')]_vars

----------------------------------------------------------------------------
(* C3 *)

\* C3 as stated: once an account is Disabled no step of a request (select,
\* report_error of any classification, cooldown expiry) makes it Available or
\* CoolingDown.
C3_DisabledAbsorbing ==
    [][\A id \in GatewayIds :
          HasTag(statuses, id, "Disabled") => HasTag(statuses', id, "Disabled")]_vars

----------------------------------------------------------------------------
(* C4 *)

\* C4: when the upstream answers QuotaExceeded and failover attempts remain, the
\* account used becomes CoolingDown{until = now + cooldown_duration} in that
\* step, the request goes back to prepare (select) for the next attempt without
\* answering the client, the account prepare returns is the one the next send
\* uses, and an attempt answered 2xx ends the request with that response.
C4_QuotaFailover ==
    [][\A p \in Procs :
          /\ SendStep(p) =>
                LET o == req'[p].upstream[1]
                    a == req[p].account_id[1]
                IN /\ (IsQuotaExceeded(o) /\ req[p].failover + 1 < max_failover_attempts) =>
                          /\ statuses'[a] = CoolingDown(now + cooldown_duration)
                          /\ req'[p].pc = "select"
                          /\ req'[p].failover = req[p].failover + 1
                          /\ req'[p].response = None
                          /\ metrics' = metrics
                   /\ IsSuccess(o) =>
                          /\ req'[p].pc = "done"
                          /\ req'[p].response =
                                Some([status |-> o.status, body |-> o.body,
                                      origin |-> "upstream"])
          /\ (req[p].pc = "sel_ret" /\ req'[p] # req[p] /\ req[p].result[1].ok) =>
                /\ req'[p].pc = "send"
                /\ req'[p].account_id = Some(req[p].result[1].id)
                /\ req'[p].bearer = Some(req[p].result[1].access_token)]_vars

\* a got a quota 429, the request failed over to b and the client has b's 200
C4_Witness ==
    /\ req[Caller].pc = "done"
    /\ req[Caller].tried = <<"a", "b">>
    /\ req[Caller].buffered # None
    /\ req[Caller].response = Some([status |-> 200, body |-> <<"o", "k">>,
                                    origin |-> "upstream"])
    /\ IsCooling(statuses, "a", now)

----------------------------------------------------------------------------
(* C5 *)

\* C5: when the upstream answers 401 or 403 the account used becomes Disabled in
\* that step and the request ends with the upstream's status and body; a request
\* that has ended selects no account and sends nothing (its task moves again
\* only for a new inbound request).
C5_PermanentDisables ==
    [][\A p \in Procs :
          /\ SendStep(p) =>
                LET o == req'[p].upstream[1]
                    a == req[p].account_id[1]
                IN (o.kind = "response" /\ o.status \in {401, 403}) =>
                      /\ statuses'[a] = Disabled
                      /\ req'[p].pc = "done"
                      /\ req'[p].response =
                            Some([status |-> o.status, body |-> o.body,
                                  origin |-> "upstream"])
                      /\ next_index' = next_index
          /\ req[p].pc = "done" =>
                (req'[p] = req[p] \/ req'[p].pc = "read_body")]_vars

\* a answered 401: a is Disabled, the client has the 401, b was never tried
C5_Witness ==
    /\ account_ids = <<"a", "b">>
    /\ req[Caller].pc = "done"
    /\ req[Caller].tried = <<"a">>
    /\ req[Caller].response = Some([status |-> 401, body |-> <<"x">>,
                                    origin |-> "upstream"])
    /\ statuses["a"] = Disabled
    /\ statuses["b"] = Available
    /\ next_index = 1

----------------------------------------------------------------------------
(* C6 *)

\* C6 as stated: a request that ended without success after receiving a
\* QuotaExceeded response (the last answer it had from the upstream was that
\* response, whether or not a later prepare found an account) answers that
\* response verbatim; 503 is answered only by a request that never buffered an
\* upstream error.
C6_BufferedErrorReturned ==
    \A p \in Procs :
        (req[p].pc = "done" /\ req[p].buffered # None) =>
            /\ req[p].upstream = req[p].buffered =>
                  req[p].response = Some(upstream_response(req[p].buffered[1]))
            /\ req[p].response # Some(error_response(503))

----------------------------------------------------------------------------
(* C7 *)

\* C7 (as the code has it): a select() that inspects b while b is
\* CoolingDown{until} and now >= until sets b Available in that very step, in
\* the shared status map, and takes b as its candidate; a call leaves its
\* candidate only by returning it or by setting it Disabled, and it sets it
\* Disabled only when the credential is missing from the store or the inline
\* refresh failed.
C7_LazyTransition ==
    [][\A p \in Procs :
          /\ (req[p].pc = "sel_scan" /\ req'[p] # req[p] /\ IsLapsed(statuses, Cand(p), now)) =>
                /\ statuses' = Insert(statuses, Cand(p), Available)
                /\ req'[p].pc = "sel_get"
          /\ (HoldsCandidate(req[p]) /\ ~HoldsCandidate(req'[p])) =>
                \/ /\ req'[p].pc = "sel_ret"
                   /\ req'[p].result[1].ok
                   /\ req'[p].result[1].id = Cand(p)
                \/ /\ req[p].pc = "sel_disable"
                   /\ statuses' = Insert(statuses, Cand(p), Disabled)
                   /\ req'[p].pc \in {"sel_scan", "sel_count"}
          /\ (req'[p].pc = "sel_disable" /\ req[p].pc # "sel_disable") =>
                \/ req[p].pc = "sel_get" /\ Cand(p) \notin DOMAIN store
                \/ req[p].pc = "sel_refresh"]_vars

\* a call found b with a lapsed cooldown and returned it; b is Available
C7_Witness ==
    \E p \in Procs :
        /\ req[p].pc = "sel_ret"
        /\ req[p].result[1].ok
        /\ req[p].inspected[1].status[1].tag = "CoolingDown"
        /\ req[p].inspected[1].at >= req[p].inspected[1].status[1].until
        /\ statuses[req[p].result[1].id] = Available

\* C7 as stated: a call that inspected b with a lapsed cooldown either returns
\* b or leaves b Available.
C7_Original ==
    [][\A p \in Procs :
          (/\ HoldsCandidate(req[p]) /\ ~HoldsCandidate(req'[p])
           /\ req[p].inspected[1].status[1].tag = "CoolingDown") =>
                \/ /\ req'[p].pc = "sel_ret"
                   /\ req'[p].result[1].ok
                   /\ req'[p].result[1].id = Cand(p)
                \/ HasTag(statuses', Cand(p), "Available")]_vars

----------------------------------------------------------------------------
(* C8 *)

\* C8: report_error(id, c) sets id's status to CoolingDown{until = now +
\* cooldown_duration} for QuotaExceeded, to Disabled for Permanent, and changes
\* nothing for Transient; the account list, the cursor and the status of every
\* other account are unchanged.
C8_ReportErrorFrame ==
    [][\A id \in GatewayIds : \A c \in Classifications :
          ReportError(id, c) =>
              /\ c = "QuotaExceeded" => statuses'[id] = CoolingDown(now + cooldown_duration)
              /\ c = "Permanent" => statuses'[id] = Disabled
              /\ c = "Transient" => statuses' = statuses
              /\ account_ids' = account_ids
              /\ next_index' = next_index
              /\ DOMAIN statuses' \subseteq DOMAIN statuses \cup {id}
              /\ \A other \in DOMAIN statuses \ {id} :
                    other \in DOMAIN statuses' /\ statuses'[other] = statuses[other]]_vars

\* a was reported QuotaExceeded after one tick and b Permanent; two selects ran
C8_Witness ==
    /\ account_ids = <<"a", "b">>
    /\ statuses["a"] = CoolingDown(TickMillis + cooldown_duration)
    /\ statuses["b"] = Disabled
    /\ next_index = 2

----------------------------------------------------------------------------
(* C9 *)

\* the counts of the pool as it is now
NowAvailable ==
    Cardinality({i \in 1..Len(account_ids) :
        \/ HasTag(statuses, account_ids[i], "Available")
        \/ IsLapsed(statuses, account_ids[i], now)})

NowCooling ==
    Cardinality({i \in 1..Len(account_ids) : IsCooling(statuses, account_ids[i], now)})

\* C9 (as the code has it): when select() fails with PoolExhausted, total is
\* the length of the account list, available + cooling_down + disabled = total,
\* and available and cooling_down count the accounts as they are when the
\* counts are taken, after the scan: available is the number of accounts that
\* are Available or whose cooldown has lapsed by then (all four are 0 for an
\* empty pool).
C9_ExhaustedCounts ==
    [][\A p \in Procs :
          (SelectReturns(p) /\ ~req'[p].result[1].ok) =>
              LET e == req'[p].result[1] IN
              /\ e.total = Len(account_ids)
              /\ e.available + e.cooling + e.disabled = e.total
              /\ e.available = NowAvailable
              /\ e.cooling = NowCooling
              /\ Len(account_ids) = 0 => e = PoolExhausted(0, 0, 0, 0)]_vars

\* the spec's example: {total: 2, available: 0, cooling_down: 1, disabled: 1}
C9_Witness ==
    \E p \in Procs :
        /\ req[p].pc = "sel_ret"
        /\ req[p].result[1] = PoolExhausted(2, 0, 1, 1)

\* C9 as stated: the counts of PoolExhausted have total = the length of the
\* list, available + cooling_down + disabled = total and available = 0.
C9_Original ==
    [][\A p \in Procs :
          (SelectReturns(p) /\ ~req'[p].result[1].ok) =>
              LET e == req'[p].result[1] IN
              /\ e.total = Len(account_ids)
              /\ e.available + e.cooling + e.disabled = e.total
              /\ e.available = 0]_vars

----------------------------------------------------------------------------
(* C10 *)

\* the triple an inline refresh of task p is about to store
RefreshedTriple(p) ==
    Credential(req[p].token_response[1].access_token,
               req[p].token_response[1].refresh_token,
               req[p].now_millis + req[p].token_response[1].expires_in * 1000)

\* C10 (as the code has it): when select() returns an account through the
\* inline-refresh path, update_token has run, and if the account's entry was
\* still in the store the in-memory map holds the refreshed triple at that
\* moment (stored access = returned access token, new refresh token, new absolute
\* expiry); the credentials file holds it only if the write succeeded, a failed
\* write being logged and the token returned all the same.
C10_PersistBeforeReturn ==
    [][\A p \in Procs :
          (req[p].pc = "sel_persist" /\ req'[p].pc = "sel_ret") =>
              LET id == Cand(p) IN
              /\ req'[p].result[1] =
                    SelectedAccount(id, req[p].token_response[1].access_token)
              /\ req'[p].persisted # None
              /\ id \in DOMAIN store =>
                    /\ id \in DOMAIN store'
                    /\ store'[id] = RefreshedTriple(p)
                    /\ store'[id].access = req'[p].result[1].access_token
                    /\ req'[p].persisted = Some(TRUE) => disk' = store'
                    /\ req'[p].persisted = Some(FALSE) => disk' = disk]_vars

\* an inline refresh returned a new access token, stored and written
C10_Witness ==
    \E p \in Procs :
        /\ req[p].pc = "sel_ret"
        /\ req[p].persisted = Some(TRUE)
        /\ req[p].result[1].ok
        /\ req[p].result[1].access_token.n = 1
        /\ store[req[p].result[1].id].access = req[p].result[1].access_token
        /\ disk = store

\* C10 as stated: when select() returns through the inline-refresh path the
\* credential store, the map and its file, holds the refreshed triple.
C10_Original ==
    [][\A p \in Procs :
          (req[p].pc = "sel_persist" /\ req'[p].pc = "sel_ret") =>
              LET id == Cand(p) IN
              /\ id \in DOMAIN store' /\ store'[id] = RefreshedTriple(p)
              /\ id \in DOMAIN disk' /\ disk'[id] = RefreshedTriple(p)]_vars

----------------------------------------------------------------------------
(* C11 *)

\* C11: when the inline refresh of a candidate fails, with InvalidCredentials,
\* TokenExchange or Http alike, select() does not return that account: its next
\* step sets the account Disabled and moves the scan to the next offset (or to
\* the count when no account is left), and a call that returns an account
\* after such a failure returns another account.
C11_RefreshFailureDisables ==
    [][\A p \in Procs :
          /\ (req[p].pc = "sel_refresh" /\ req'[p].refresh_error # req[p].refresh_error) =>
                /\ req'[p].refresh_error[1].id = Cand(p)
                /\ req'[p].refresh_error[1].err \in RefreshErrors
                /\ req'[p].pc = "sel_disable"
                /\ statuses' = statuses
          /\ (req[p].pc = "sel_disable" /\ req'[p] # req[p] /\ req[p].refresh_error # None
              /\ req[p].refresh_error[1].id = Cand(p)) =>
                /\ statuses' = Insert(statuses, Cand(p), Disabled)
                /\ req'[p].offset = req[p].offset + 1
                /\ req'[p].pc = IF req[p].offset + 1 < Len(account_ids)
                                THEN "sel_scan" ELSE "sel_count"
          /\ (SelectReturns(p) /\ req'[p].result[1].ok /\ req'[p].refresh_error # None) =>
                req'[p].result[1].id # req'[p].refresh_error[1].id]_vars

\* a's refresh failed with a transport error: a is Disabled and the call
\* returned b
C11_Witness ==
    /\ account_ids = <<"a", "b">>
    /\ req[Caller].pc = "sel_ret"
    /\ req[Caller].refresh_error = Some([id |-> "a", err |-> "Http"])
    /\ req[Caller].result[1].ok
    /\ req[Caller].result[1].id = "b"
    /\ statuses["a"] = Disabled

----------------------------------------------------------------------------
(* C12 *)

\* 60 s in milliseconds
SixtySeconds == 60 * 1000

\* C12: select() goes to the token endpoint for its candidate exactly when the
\* expiry it read from the store satisfies expires <= now + 60 s; when
\* expires > now + 60 s it returns the stored access token in that step, with
\* no token issued and the credential store and its file untouched.
C12_RefreshThreshold ==
    [][\A p \in Procs :
          /\ (req[p].pc = "sel_get" /\ req'[p] # req[p] /\ Cand(p) \in DOMAIN store) =>
                LET c == store[Cand(p)] IN
                /\ c.expires <= now + SixtySeconds =>
                      /\ req'[p].pc = "sel_refresh"
                      /\ req'[p].credential = Some(c)
                /\ c.expires > now + SixtySeconds =>
                      /\ req'[p].pc = "sel_ret"
                      /\ req'[p].result = Some(SelectedAccount(Cand(p), c.access))
                      /\ issued' = issued
                      /\ store' = store
                      /\ disk' = disk
          /\ (req'[p].pc = "sel_refresh" /\ req[p].pc # "sel_refresh") =>
                /\ req[p].pc = "sel_get"
                /\ Cand(p) \in DOMAIN store
                /\ store[Cand(p)].expires <= now + SixtySeconds
          /\ (req[p].pc # "sel_refresh" /\ admin.pc = admin'.pc /\ req'[p] # req[p]) =>
                issued' = issued]_vars

\* a (expiry 90 s) was returned at time 0 with its stored token and is
\* untouched in the store; b (expiry 90 s) was inspected at 30 s, on the
\* boundary, and refreshed
C12_Witness ==
    /\ account_ids = <<"a", "b">>
    /\ now = TickMillis
    /\ req[Caller].pc = "sel_ret"
    /\ req[Caller].tried = <<"a">>
    /\ req[Caller].result[1].ok
    /\ req[Caller].result[1].id = "b"
    /\ req[Caller].result[1].access_token = AccessToken("b", 1)
    /\ store["a"] = Enrolled("a", SoonExpiry)
    /\ issued = 1

----------------------------------------------------------------------------
(* C13 *)

\* C13: when select() finds its eligible candidate has no entry in the
\* credential store it does not return it: it goes to the disable step, which
\* sets the account Disabled and moves the scan to the next offset (or to the
\* count when no account is left).
C13_MissingCredentialDisables ==
    [][\A p \in Procs :
          /\ (req[p].pc = "sel_get" /\ req'[p] # req[p] /\ Cand(p) \notin DOMAIN store) =>
                /\ req'[p].pc = "sel_disable"
                /\ req'[p].offset = req[p].offset
                /\ statuses' = statuses
          /\ (req[p].pc = "sel_disable" /\ req'[p] # req[p] /\ Cand(p) \notin DOMAIN store) =>
                /\ statuses' = Insert(statuses, Cand(p), Disabled)
                /\ req'[p].offset = req[p].offset + 1
                /\ req'[p].pc = IF req[p].offset + 1 < Len(account_ids)
                                THEN "sel_scan" ELSE "sel_count"
          /\ (SelectReturns(p) /\ req'[p].result[1].ok) =>
                req'[p].result[1].id \in DOMAIN store]_vars

\* the first select of the run started at a, which the store does not have:
\* a is Disabled and the call returned b
C13_Witness ==
    /\ account_ids = <<"a", "b">>
    /\ "a" \notin DOMAIN store
    /\ admin = IdleAdmin
    /\ next_index = 1
    /\ req[Caller].pc = "sel_ret"
    /\ req[Caller].refresh_error = None
    /\ req[Caller].result[1].ok
    /\ req[Caller].result[1].id = "b"
    /\ statuses["a"] = Disabled

----------------------------------------------------------------------------
(* C14 *)

\* C14: in a background refresh cycle a refresh that fails with
\* InvalidCredentials sets the account Disabled and changes no other status; a
\* refresh that fails with TokenExchange or Http leaves the status map as it
\* is; either way the stored credential and the file are unchanged, and a
\* cycle that finds a stored credential expiring within the threshold attempts
\* its refresh, whatever happened in earlier cycles.
C14_CycleRefreshFailure ==
    [][/\ (bg.pc = "refresh" /\ Len(bg'.log) = Len(bg.log) + 1) =>
              LET e == bg'.log[Len(bg'.log)]
                  id == bg.ids[bg.i]
              IN /\ e.id = id
                 /\ e.outcome \in RefreshErrors
                 /\ e.outcome = "InvalidCredentials" =>
                        statuses' = Insert(statuses, id, Disabled)
                 /\ e.outcome # "InvalidCredentials" => statuses' = statuses
                 /\ store' = store
                 /\ disk' = disk
       /\ (bg.pc = "get" /\ bg' # bg /\ bg.ids[bg.i] \in DOMAIN store
           /\ store[bg.ids[bg.i]].expires <= bg.now_millis + threshold_millis) =>
              /\ bg'.pc = "refresh"
              /\ bg'.i = bg.i
              /\ bg'.credential = Some(store[bg.ids[bg.i]])]_vars

\* a's refresh failed with a transport error in the first cycle; the second
\* cycle tried again and, answered InvalidCredentials, disabled a; a's
\* credential is as enrolled
C14_Witness ==
    /\ bg.cycles = 2
    /\ bg.log = << [id |-> "a", outcome |-> "Http"],
                   [id |-> "a", outcome |-> "InvalidCredentials"] >>
    /\ statuses["a"] = Disabled
    /\ store["a"] = Enrolled("a", SoonExpiry)


----------------------------------------------------------------------------
(* C15 *)

\* C15: within one failover attempt the request is sent at most 3 times; a
\* send is followed by another send to the same account in the same failover
\* attempt only when it timed out, and only after the first or second send;
\* when the third send times out the handler returns the 504 proxy_error, and
\* no account status changes on a timeout.
C15_TimeoutRetryBound ==
    [][\A p \in Procs :
        /\ req'[p].sends <= 3
        /\ (SendStep(p) /\ req'[p].pc = "send") =>
              /\ req'[p].upstream = Some(Timeout)
              /\ req[p].sends < 2
              /\ req'[p].sends = req[p].sends + 1
              /\ req'[p].failover = req[p].failover
              /\ req'[p].account_id = req[p].account_id
              /\ req'[p].bearer = req[p].bearer
              /\ statuses' = statuses
              /\ metrics' = metrics
        /\ (SendStep(p) /\ req'[p].upstream = Some(Timeout) /\ req[p].sends < 2) =>
              req'[p].pc = "send"
        /\ (SendStep(p) /\ req'[p].upstream = Some(Timeout) /\ req[p].sends = 2) =>
              /\ req'[p].pc = "done"
              /\ req'[p].sends = 3
              /\ req'[p].response = Some(error_response(504))
              /\ statuses' = statuses
              /\ metrics'.errors_total = metrics.errors_total + 1]_vars

\* three sends to a, each timed out: the client has the 504
C15_Witness ==
    /\ req[Caller].pc = "done"
    /\ req[Caller].sends = 3
    /\ req[Caller].upstream = Some(Timeout)
    /\ req[Caller].tried = <<"a">>
    /\ req[Caller].response = Some(error_response(504))


----------------------------------------------------------------------------
(* C16 *)

\* C16: a send that fails with a connection error ends the request at once,
\* whichever attempt and failover attempt it is: the handler returns the 502
\* proxy_error, counts the error, starts no other send or selection, and
\* changes no account status.
C16_ConnectErrorNotRetried ==
    [][\A p \in Procs :
        (SendStep(p) /\ req'[p].upstream = Some(ConnectError)) =>
            /\ req'[p].pc = "done"
            /\ req'[p].response = Some(error_response(502))
            /\ req'[p].sends = req[p].sends + 1
            /\ req'[p].tried = req[p].tried
            /\ statuses' = statuses
            /\ next_index' = next_index
            /\ metrics'.errors_total = metrics.errors_total + 1]_vars

\* the first send to a met a connection error: 502 after one send, with b
\* never selected
C16_Witness ==
    /\ req[Caller].pc = "done"
    /\ req[Caller].sends = 1
    /\ req[Caller].upstream = Some(ConnectError)
    /\ req[Caller].tried = <<"a">>
    /\ account_ids = <<"a", "b">>
    /\ statuses["b"] = Available
    /\ req[Caller].response = Some(error_response(502))


----------------------------------------------------------------------------
(* C17 *)

\* the upstream answered the send with an error status classified Transient
IsTransient(o) ==
    /\ o.kind = "response"
    /\ is_error_status(o.status)
    /\ classify_status(o.status, o.body) = "Transient"

\* C17: when the upstream answers a send with a 4xx/5xx classified Transient,
\* the handler returns in that step a response with the upstream's status and
\* body; the pipeline reports no account, no account status changes, no other
\* account is selected and no further send is made.
C17_TransientVerbatim ==
    [][\A p \in Procs :
        (SendStep(p) /\ req'[p].upstream # None /\ IsTransient(req'[p].upstream[1])) =>
            LET o == req'[p].upstream[1] IN
            /\ req'[p].pc = "done"
            /\ req'[p].response =
                   Some([status |-> o.status, body |-> o.body, origin |-> "upstream"])
            /\ req'[p].reported = req[p].reported
            /\ statuses' = statuses
            /\ req'[p].tried = req[p].tried
            /\ next_index' = next_index
            /\ req'[p].sends = req[p].sends + 1]_vars

\* a answered 429 without a quota message: the client has that 429, a is still
\* Available, and b, Available too, was never tried
C17_Witness ==
    /\ req[Caller].pc = "done"
    /\ req[Caller].upstream = Some(Upstream(429, <<>>))
    /\ req[Caller].response = Some(upstream_response(Upstream(429, <<>>)))
    /\ req[Caller].tried = <<"a">>
    /\ req[Caller].reported = <<>>
    /\ account_ids = <<"a", "b">>
    /\ statuses["a"] = Available
    /\ statuses["b"] = Available


----------------------------------------------------------------------------
(* C18 *)

\* the handler of task p returns in this step
Returns(p) == req[p].pc \notin {"idle", "done", "panic"} /\ req'[p].pc = "done"

\* C18: errors_total changes only in a step in which a handler returns, and
\* then by one, so that a request adds at most one to it whatever timeouts and
\* failovers came before and the counter never exceeds the number of finished
\* requests; a handler that returns a response built by the proxy returns a
\* 400, 502, 503 or 504 and adds exactly one.
C18_ErrorsCountedOnce ==
    [][/\ metrics'.errors_total # metrics.errors_total =>
              /\ metrics'.errors_total = metrics.errors_total + 1
              /\ \E p \in Procs : Returns(p)
       /\ metrics'.errors_total <= metrics'.requests_total - metrics'.in_flight
       /\ \A p \in Procs :
            (Returns(p) /\ req'[p].response[1].origin = "proxy") =>
                /\ req'[p].response[1].status \in {400, 502, 503, 504}
                /\ metrics'.errors_total = metrics.errors_total + 1]_vars

\* one request: a answered quota exhausted, the request failed over to b, b
\* timed out three times, the client has the 504, and errors_total is 1
C18_Witness ==
    /\ metrics.requests_total = 1
    /\ metrics.errors_total = 1
    /\ req[Caller].pc = "done"
    /\ req[Caller].tried = <<"a", "b">>
    /\ req[Caller].reported = <<"a">>
    /\ req[Caller].sends = 3
    /\ req[Caller].response = Some(error_response(504))


----------------------------------------------------------------------------
(* C19 *)

\* the invocations of proxy_request that have started and have neither
\* returned nor unwound
Running == {p \in Procs : req[p].pc \notin {"idle", "done", "panic"}}

\* C19: in_flight is at every moment the number of proxy_request invocations
\* that have started and not finished, whichever way each one ends (success,
\* upstream error returned, 400, 502, 503, 504, the unreachable!() panic); it
\* is never negative, and it is 0 when no invocation is running.
C19_InFlightExact ==
    /\ metrics.in_flight = Cardinality(Running)
    /\ metrics.in_flight >= 0
    /\ Running = {} => metrics.in_flight = 0

\* two requests were in flight together; one ended with the 504 of a third
\* timeout, the other with the upstream's 200, and in_flight is back to 0
C19_Witness ==
    /\ metrics.requests_total = 2
    /\ metrics.in_flight = 0
    /\ req["r1"].pc = "done"
    /\ req["r1"].response = Some(error_response(504))
    /\ req["r2"].pc = "done"
    /\ req["r2"].response = Some(upstream_response(Upstream(200, <<"o", "k">>)))


----------------------------------------------------------------------------
(* C20 *)

\* the admin handler's call of add_account(id) runs in this step
AddAccountStep == admin.pc \in {"add_pool", "add_pool_wait"} /\ admin'.pc = "idle"

\* C20 as stated: add_account(id) for an id that is already in the pool leaves
\* the account list and the status map as they were: no duplicate in the list,
\* and the account keeps the status it had.
C20_AddAccountIdempotent ==
    [][(AddAccountStep /\ \E i \in 1..Len(account_ids) : account_ids[i] = admin.id[1]) =>
           /\ account_ids' = account_ids
           /\ statuses' = statuses]_vars


----------------------------------------------------------------------------
(* Calls of classify_status on sampled statuses and bodies *)

\* the gateway with no account and no request: the state in which a component
\* is exercised on its own
Parked ==
    /\ PoolNew(<<>>)
    /\ store = EmptyMap
    /\ disk = store
    /\ issued = 0
    /\ now = 0
    /\ max_failover_attempts = 0
    /\ metrics = [requests_total |-> 0, errors_total |-> 0, in_flight |-> 0]
    /\ req = [p \in Procs |-> IdleReq]
    /\ admin = IdleAdmin
    /\ sel_log = <<>>
    /\ bg = IdleBg

\* the upper-case form of an ASCII letter
upper_char(c) ==
    IF \E i \in 1..Len(LowerChars) : LowerChars[i] = c
    THEN UpperChars[CHOOSE i \in 1..Len(LowerChars) : LowerChars[i] = c]
    ELSE c

\* pat with the letters at the positions in `up` in upper case
Cased(pat, up) == [i \in 1..Len(pat) |-> IF i \in up THEN upper_char(pat[i]) ELSE pat[i]]

\* the letter cases a phrase is tried in: as written, all upper case, one
\* letter upper case, a leading stretch upper case, every other letter
CaseMasks(pat) ==
    {{}} \cup {{i} : i \in 1..Len(pat)} \cup {1..i : i \in 1..Len(pat)}
         \cup {{i \in 1..Len(pat) : i % 2 = 1}}

\* pat without its i-th character
Without(pat, i) == SubSeq(pat, 1, i - 1) \o SubSeq(pat, i + 1, Len(pat))

\* pat with an "x" put before its i-th character
Split(pat, i) == SubSeq(pat, 1, i - 1) \o <<"x">> \o SubSeq(pat, i, Len(pat))

Before == {<<>>, <<"x">>, <<"{", "5">>}
After == {<<>>, <<"!">>}

\* bodies that hold a quota phrase in some letter case, bodies that miss one by
\* a character, and bodies that hold none
Bodies ==
    {pre \o Cased(QUOTA_PATTERNS[k], up) \o post :
        <<k, pre, post>> \in (1..Len(QUOTA_PATTERNS)) \X Before \X After,
        up \in UNION {CaseMasks(QUOTA_PATTERNS[n]) : n \in 1..Len(QUOTA_PATTERNS)}}
    \cup UNION {{Without(QUOTA_PATTERNS[k], i), Split(QUOTA_PATTERNS[k], i + 1),
                 Cased(Without(QUOTA_PATTERNS[k], i), 1..Len(QUOTA_PATTERNS[k]))} :
                <<k, i>> \in {<<k, i>> \in (1..Len(QUOTA_PATTERNS)) \X (1..24) :
                                 i < Len(QUOTA_PATTERNS[k])}}
    \cup {<<>>, <<"x">>, <<"5">>, <<"r", "a", "t", "e", " ", "l", "i", "m", "i", "t">>}

\* statuses: the ones the match names, their neighbours, and the ends of u16
Statuses == {0, 200, 400, 401, 402, 403, 404, 408, 428, 429, 430, 500, 502, 503,
             504, 529, 65535}

InitClassifier ==
    /\ Parked
    /\ client_headers = PlainClient
    /\ client_body = PlainBody
    /\ pt = None
    /\ cs = None
    /\ hp = None
    /\ svc = None
    /\ cls \in {Some([status |-> s, body |-> b, result |-> None]) :
                   s \in Statuses, b \in Bodies}

\* classify_status(status, body) is called and returns
Classify ==
    /\ cls # None
    /\ cls[1].result = None
    /\ cls' = Some([cls[1] EXCEPT !.result = Some(classify_status(cls[1].status, cls[1].body))])
    /\ UNCHANGED <<gateway, hp, svc, bg, client_headers, client_body, pt, cs>>

NextClassifier == Classify

SpecClassifier == InitClassifier /\ [][NextClassifier]_vars

----------------------------------------------------------------------------
(* C21 *)

\* a and b are the same character up to the case of an ASCII letter
SameLetter(a, b) ==
    a = b \/ \E i \in 1..Len(UpperChars) : {a, b} = {UpperChars[i], LowerChars[i]}

\* body holds one of the quota phrases, letter case aside
HoldsQuotaPhrase(body) ==
    \E n \in 1..Len(QUOTA_PATTERNS) :
        \E k \in 0..(Len(body) - Len(QUOTA_PATTERNS[n])) :
            \A j \in 1..Len(QUOTA_PATTERNS[n]) :
                SameLetter(body[k + j], QUOTA_PATTERNS[n][j])

\* C21: every call of classify_status returns one of the three
\* classifications: QuotaExceeded when the status is 429 and the body holds a
\* quota phrase in whatever letter case, Permanent when the status is 401 or
\* 403 whatever the body, and Transient in every other case.
C21_ClassifierPolicy ==
    (cls # None /\ cls[1].result # None) =>
        LET status == cls[1].status
            body == cls[1].body
            result == cls[1].result[1]
        IN /\ result \in {"Transient", "QuotaExceeded", "Permanent"}
           /\ result = IF status = 429 /\ HoldsQuotaPhrase(body) THEN "QuotaExceeded"
                       ELSE IF status \in {401, 403} THEN "Permanent"
                       ELSE "Transient"

\* 429 with "5-HOUr" inside other text was classified QuotaExceeded
C21_Witness ==
    /\ cls # None
    /\ cls[1].status = 429
    /\ cls[1].body = <<"x", "5", "-", "H", "O", "U", "r", "!">>
    /\ cls[1].result = Some("QuotaExceeded")


----------------------------------------------------------------------------
(* PassthroughProvider::prepare_request *)

is_authorization_never(name) == FALSE

\* name == reqwest::header::AUTHORIZATION
is_authorization(name) == name = AUTHORIZATION

\* one iteration of `for injection in &self.headers`
inject(h, injection) ==
    LET name == header_name_from_str(injection.name)
        value == header_value_from_str(injection.value)
    IN IF name = None THEN h
       ELSE IF is_authorization(name[1]) THEN h
       ELSE IF value = None THEN h
       ELSE header_insert(h, name[1], value[1])

RECURSIVE passthrough_prepare(_, _)
\* the loop over the configured injections, in order
passthrough_prepare(h, injections) ==
    IF injections = <<>> THEN h
    ELSE passthrough_prepare(inject(h, Head(injections)), Tail(injections))

X_CUSTOM == <<"x", "-", "c", "u", "s", "t", "o", "m">>

\* what clients send: no, one or two Authorization headers, with or without a
\* header a rule also names, with or without a hop-by-hop header
ClientHeaderSets ==
    {[name \in names |-> IF name = AUTHORIZATION THEN auth ELSE << <<"c">> >>] :
        <<names, auth>> \in
            {ns \in SUBSET {AUTHORIZATION, X_CUSTOM, <<"t", "e">>} : TRUE}
            \X {<< <<"X">> >>, << <<"X">>, <<"Y">> >>}}

\* configured rules: authorization in four letter cases, a header in two
\* letter cases with two values, an invalid name, an invalid value
InjectionRules ==
    {[name |-> Cased(AUTHORIZATION, up), value |-> <<"e", "v", "i", "l">>] :
        up \in {{}, {1}, 1..13, {2, 5, 9}}}
    \cup {[name |-> X_CUSTOM, value |-> <<"v">>],
          [name |-> Cased(X_CUSTOM, {1, 3}), value |-> <<"w">>],
          [name |-> <<"b", "a", "d", " ", "n", "a", "m", "e">>, value |-> <<"v">>],
          [name |-> X_CUSTOM, value |-> <<"b", "\n", "v">>],
          [name |-> <<"a", "n", "t", "h", "r", "o", "p", "i", "c", "-", "b", "e", "t", "a">>,
           value |-> <<"o">>]}

\* injection lists of up to two rules
InjectionLists ==
    {<<>>} \cup {<<r>> : r \in InjectionRules}
           \cup {<<r, q>> : r \in InjectionRules, q \in InjectionRules}

InitPassthrough ==
    /\ Parked
    /\ cls = None
    /\ cs = None
    /\ hp = None
    /\ svc = None
    /\ client_headers \in ClientHeaderSets
    /\ client_body = PlainBody
    /\ pt \in {Some([injections |-> l, headers |-> None]) : l \in InjectionLists}

\* proxy_request clones original_headers and the provider prepares them
PassthroughPrepare ==
    /\ pt # None
    /\ pt[1].headers = None
    /\ pt' = Some([pt[1] EXCEPT !.headers =
                Some(passthrough_prepare(original_headers(client_headers),
                                         pt[1].injections))])
    /\ UNCHANGED <<gateway, hp, svc, bg, cls, client_headers, client_body, cs>>

NextPassthrough == PassthroughPrepare

SpecPassthrough == InitPassthrough /\ [][NextPassthrough]_vars


----------------------------------------------------------------------------
(* C22 *)

\* a and b are the same header name up to letter case
SameName(a, b) == Len(a) = Len(b) /\ \A i \in 1..Len(a) : SameLetter(a[i], b[i])

\* the rule has a valid name and a valid value
ValidRule(r) == header_name_from_str(r.name) # None /\ header_value_from_str(r.value) # None

\* C22: after the passthrough provider has prepared the headers, the request
\* has an Authorization header exactly when the client sent one, with the
\* values the client sent, whatever the injection list, rules named
\* authorization in any letter case included; and for every other valid rule
\* that no later valid rule of the same name overrides, the request carries
\* that rule's value as the only value of its name.
C22_AuthorizationProtected ==
    (pt # None /\ pt[1].headers # None) =>
        LET h == pt[1].headers[1]
            rules == pt[1].injections
        IN /\ \A n \in DOMAIN h : SameName(n, AUTHORIZATION) => n = AUTHORIZATION
           /\ AUTHORIZATION \in DOMAIN h <=> AUTHORIZATION \in DOMAIN client_headers
           /\ AUTHORIZATION \in DOMAIN h => h[AUTHORIZATION] = client_headers[AUTHORIZATION]
           /\ \A i \in 1..Len(rules) :
                (/\ ValidRule(rules[i])
                 /\ ~SameName(rules[i].name, AUTHORIZATION)
                 /\ \A j \in (i + 1)..Len(rules) :
                        ~(ValidRule(rules[j]) /\ SameName(rules[j].name, rules[i].name))) =>
                    /\ to_lowercase(rules[i].name) \in DOMAIN h
                    /\ h[to_lowercase(rules[i].name)] = <<rules[i].value>>

\* the client sent Authorization: X and x-custom: c; the rules are
\* Authorization: evil and x-custom: v; the request carries Authorization: X
\* and x-custom: v
C22_Witness ==
    /\ pt # None
    /\ pt[1].headers # None
    /\ client_headers = [name \in {AUTHORIZATION, X_CUSTOM} |->
                            IF name = AUTHORIZATION THEN << <<"X">> >> ELSE << <<"c">> >>]
    /\ pt[1].injections =
          << [name |-> Cased(AUTHORIZATION, {1}), value |-> <<"e", "v", "i", "l">>],
             [name |-> X_CUSTOM, value |-> <<"v">>] >>
    /\ pt[1].headers[1][AUTHORIZATION] = << <<"X">> >>
    /\ pt[1].headers[1][X_CUSTOM] = << <<"v">> >>


----------------------------------------------------------------------------
(* One request task in OAuth mode, for every kind of inbound headers *)

\* clients that also send anthropic-beta flags, one of them a required flag
BetaClients ==
    {[name \in {AUTHORIZATION, ANTHROPIC_BETA} |->
         IF name = AUTHORIZATION THEN << <<"X">> >>
         ELSE << <<"m", "y", ",", " ">> \o REQUIRED_BETA_FLAGS[1] >>],
     [name \in {ANTHROPIC_BETA} |-> << <<"m", "y">>, <<"o", "t", "h", "e", "r">> >>]}

OAuthClientHeaderSets == ClientHeaderSets \cup BetaClients

InitPrepare ==
    /\ InitGateway
    /\ bg = IdleBg
    /\ cls = None
    /\ pt = None
    /\ cs = None
    /\ hp = None
    /\ svc = None
    /\ client_headers \in OAuthClientHeaderSets
    /\ client_body = PlainBody

\* the request task up to and through its sends, and the clock
NextPrepare ==
    \/ Ingest(Caller)
    \/ ReadBody(Caller)
    \/ SelectBegin(Caller)
    \/ SelectScan(Caller)
    \/ SelectGet(Caller)
    \/ SelectRefresh(Caller)
    \/ SelectPersist(Caller)
    \/ SelectDisable(Caller)
    \/ SelectCount(Caller)
    \/ PrepareDone(Caller)
    \/ Send(Caller)
    \/ Tick

SpecPrepare == InitPrepare /\ [][NextPrepare]_vars

----------------------------------------------------------------------------
(* C23 *)

\* C23: whenever a request has prepared headers, they hold exactly one
\* Authorization value, "Bearer " followed by the access token select()
\* returned, which is a token of the account the attempt uses; no other header
\* is named authorization in another letter case; and this is so for every set
\* of inbound headers, with no, one or two Authorization values.
C23_BearerReplacesClient ==
    \A p \in Procs :
        req[p].headers # None =>
            LET h == req[p].headers[1] IN
            /\ req[p].bearer # None /\ req[p].account_id # None
            /\ req[p].bearer[1].owner = req[p].account_id[1]
            /\ AUTHORIZATION \in DOMAIN h
            /\ h[AUTHORIZATION] =
                  << <<"B", "e", "a", "r", "e", "r", " ">> \o token_text(req[p].bearer[1]) >>
            /\ \A n \in DOMAIN h : SameName(n, AUTHORIZATION) => n = AUTHORIZATION

\* the client sent Authorization: X and Authorization: Y; the request
\* prepared for account a carries only a's Bearer
C23_Witness ==
    /\ client_headers = [name \in {AUTHORIZATION} |-> << <<"X">>, <<"Y">> >>]
    /\ req[Caller].pc = "send"
    /\ req[Caller].account_id = Some("a")
    /\ req[Caller].headers # None
    /\ req[Caller].headers[1][AUTHORIZATION] =
          << <<"B", "e", "a", "r", "e", "r", " ", "at", "-", "a", "-", "0">> >>


----------------------------------------------------------------------------
(* CredentialStore and its file, one step per lock, assignment and file call *)

\* the tasks that call the store, and the ids they use
StoreTasks == {"w1", "w2"}
StoreIds == {"a", "b"}

\* calls one task makes in one run
MaxStoreOps == 1

\* the serial number of the tokens a task writes
Serial(t) == IF t = "w1" THEN 1 ELSE 2

\* the credential written with serial number k (0: the one enrolled at start)
Triple(id, k) == Credential(AccessToken(id, k), RefreshToken(id, k), FarExpiry + k)

\* serde_json::to_string_pretty(data): the text, token by token
to_string_pretty(data) ==
    LET ids == SelectSeq(<<"a", "b">>, LAMBDA x : x \in DOMAIN data)
    IN <<[t |-> "{"]>> \o
       [i \in 1..Len(ids) |-> [t |-> "entry", id |-> ids[i], credential |-> data[ids[i]]]] \o
       <<[t |-> "}"]>>

\* serde_json::from_str(contents): the mapping, or None for text that is not a
\* complete object
from_str(text) ==
    IF /\ Len(text) >= 2
       /\ text[1].t = "{"
       /\ text[Len(text)].t = "}"
       /\ \A i \in 2..(Len(text) - 1) : text[i].t = "entry"
    THEN Some([id \in {text[i].id : i \in 2..(Len(text) - 1)} |->
                  (text[CHOOSE i \in 2..(Len(text) - 1) : text[i].id = id]).credential])
    ELSE None

tmp_path_is_path == "target"

\* dir.join(format!(".credentials.tmp.{}", std::process::id()))
tmp_path == "tmp"

lock_always_available(mutex, kind) == TRUE

lock_ignored_by_get(mutex, kind) == kind = "get" \/ mutex = None

\* self.state.lock().await returns when no task holds the mutex
lock_available(mutex, kind) == mutex = None

\* the locals of a task that is not in a call
IdleStoreTask ==
    [pc |-> "idle", kind |-> "none", id |-> "none", data |-> <<>>, written |-> 0,
     result |-> None, calls |-> 0]

\* the calls a task makes
StoreCalls ==
    {[kind |-> k, id |-> id] : k \in {"add", "remove", "update_token", "get"},
                               id \in StoreIds}
    \cup {[kind |-> "save", id |-> "none"]}

\* a store loaded from a file that holds `data`
StoreLoaded(data) ==
    [state |-> data, mutex |-> None,
     fs |-> [target |-> Some([text |-> to_string_pretty(data), mode |-> "0600"]),
             tmp |-> None],
     task |-> [t \in StoreTasks |-> IdleStoreTask],
     \* what the file held when the last write_atomic began, what that call writes
     pre |-> Some(data), post |-> data,
     crashed |-> FALSE, reloaded |-> None]

\* the call of task t returns `result`; the guard is dropped
StoreReturn(c, t, result) ==
    [c EXCEPT !.mutex = IF @ = Some(t) THEN None ELSE @,
              !.task[t] = [@ EXCEPT !.pc = "idle", !.result = Some(result),
                                    !.data = <<>>, !.written = 0]]

StoreAt(c, t, pc) == cs # None /\ ~c.crashed /\ c.task[t].pc = pc

\* a task calls add, remove, update_token, get or save
StoreCall(t, call) ==
    /\ cs # None
    /\ LET c == cs[1] IN
       /\ ~c.crashed
       /\ c.task[t].pc = "idle"
       /\ c.task[t].calls < MaxStoreOps
       /\ cs' = Some([c EXCEPT !.task[t] =
                        [@ EXCEPT !.pc = "lock", !.kind = call.kind, !.id = call.id,
                                  !.result = None, !.calls = @ + 1]])
    /\ UNCHANGED <<gateway, hp, svc, bg, cls, client_headers, client_body, pt>>

\* let state = self.state.lock().await
StoreLock(t) ==
    /\ cs # None
    /\ LET c == cs[1] IN
       /\ StoreAt(c, t, "lock")
       /\ lock_available(c.mutex, c.task[t].kind)
       /\ cs' = Some([c EXCEPT !.mutex = Some(t),
                               !.task[t].pc =
                                   CASE c.task[t].kind = "add" -> "insert"
                                     [] c.task[t].kind = "remove" -> "remove"
                                     [] c.task[t].kind = "update_token" -> "get_mut"
                                     [] c.task[t].kind = "get" -> "get"
                                     [] OTHER -> "serialize"])
    /\ UNCHANGED <<gateway, hp, svc, bg, cls, client_headers, client_body, pt>>

\* get: state.get(account_id).cloned()
StoreGet(t) ==
    /\ cs # None
    /\ LET c == cs[1] IN
       /\ StoreAt(c, t, "get")
       /\ cs' = Some(StoreReturn(c, t, [ok |-> TRUE, value |-> Get(c.state, c.task[t].id)]))
    /\ UNCHANGED <<gateway, hp, svc, bg, cls, client_headers, client_body, pt>>

\* add: state.insert(account_id, credential)
StoreInsert(t) ==
    /\ cs # None
    /\ LET c == cs[1] IN
       /\ StoreAt(c, t, "insert")
       /\ cs' = Some([c EXCEPT !.state = Insert(@, c.task[t].id,
                                                Triple(c.task[t].id, Serial(t))),
                               !.task[t].pc = "serialize"])
    /\ UNCHANGED <<gateway, hp, svc, bg, cls, client_headers, client_body, pt>>

\* remove: state.remove(account_id); nothing is written when it was absent
StoreRemove(t) ==
    /\ cs # None
    /\ LET c == cs[1] IN
       /\ StoreAt(c, t, "remove")
       /\ IF c.task[t].id \in DOMAIN c.state
          THEN cs' = Some([c EXCEPT !.state = Remove(@, c.task[t].id),
                                    !.task[t].pc = "serialize"])
          ELSE cs' = Some(StoreReturn(c, t, [ok |-> TRUE, value |-> None]))
    /\ UNCHANGED <<gateway, hp, svc, bg, cls, client_headers, client_body, pt>>

\* update_token: state.get_mut(account_id).ok_or_else(NotFound)?
StoreGetMut(t) ==
    /\ cs # None
    /\ LET c == cs[1] IN
       /\ StoreAt(c, t, "get_mut")
       /\ IF c.task[t].id \in DOMAIN c.state
          THEN cs' = Some([c EXCEPT !.task[t].pc = "set_access"])
          ELSE cs' = Some(StoreReturn(c, t, [ok |-> FALSE, value |-> None]))
    /\ UNCHANGED <<gateway, hp, svc, bg, cls, client_headers, client_body, pt>>

\* update_token: credential.access = access; credential.refresh = refresh;
\* credential.expires = expires, one assignment per step
StoreSetField(t) ==
    /\ cs # None
    /\ LET c == cs[1]
           id == c.task[t].id
           new == Triple(id, Serial(t))
       IN
       /\ ~c.crashed
       /\ c.task[t].pc \in {"set_access", "set_refresh", "set_expires"}
       /\ cs' = Some(CASE c.task[t].pc = "set_access" ->
                            [c EXCEPT !.state[id].access = new.access,
                                      !.task[t].pc = "set_refresh"]
                       [] c.task[t].pc = "set_refresh" ->
                            [c EXCEPT !.state[id].refresh = new.refresh,
                                      !.task[t].pc = "set_expires"]
                       [] OTHER ->
                            [c EXCEPT !.state[id].expires = new.expires,
                                      !.task[t].pc = "serialize"])
    /\ UNCHANGED <<gateway, hp, svc, bg, cls, client_headers, client_body, pt>>

\* write_atomic: serde_json::to_string_pretty(data)
StoreSerialize(t) ==
    /\ cs # None
    /\ LET c == cs[1] IN
       /\ StoreAt(c, t, "serialize")
       /\ cs' = Some([c EXCEPT !.task[t].pc = "create",
                               !.task[t].data = to_string_pretty(c.state),
                               !.pre = from_str(c.fs["target"][1].text),
                               !.post = c.state])
    /\ UNCHANGED <<gateway, hp, svc, bg, cls, client_headers, client_body, pt>>

\* tokio::fs::write(&tmp_path, ..): the file is created or truncated
StoreCreate(t) ==
    /\ cs # None
    /\ LET c == cs[1] IN
       /\ StoreAt(c, t, "create")
       /\ cs' = Some([c EXCEPT !.fs[tmp_path] = Some([text |-> <<>>, mode |-> "0644"]),
                               !.task[t].pc = "write", !.task[t].written = 0])
    /\ UNCHANGED <<gateway, hp, svc, bg, cls, client_headers, client_body, pt>>

\* tokio::fs::write(&tmp_path, ..): the next part of the text is written
StoreWrite(t) ==
    /\ cs # None
    /\ LET c == cs[1]
           k == c.task[t].written + 1
       IN
       /\ StoreAt(c, t, "write")
       /\ c.fs[tmp_path] # None
       /\ cs' = Some([c EXCEPT !.fs[tmp_path] =
                                   Some([@[1] EXCEPT !.text = Append(@, c.task[t].data[k])]),
                               !.task[t].written = k,
                               !.task[t].pc = IF k = Len(c.task[t].data)
                                              THEN "set_permissions" ELSE "write"])
    /\ UNCHANGED <<gateway, hp, svc, bg, cls, client_headers, client_body, pt>>

\* tokio::fs::set_permissions(&tmp_path, 0o600)
StoreSetPermissions(t) ==
    /\ cs # None
    /\ LET c == cs[1] IN
       /\ StoreAt(c, t, "set_permissions")
       /\ c.fs[tmp_path] # None
       /\ cs' = Some([c EXCEPT !.fs[tmp_path] = Some([@[1] EXCEPT !.mode = "0600"]),
                               !.task[t].pc = "rename"])
    /\ UNCHANGED <<gateway, hp, svc, bg, cls, client_headers, client_body, pt>>

\* tokio::fs::rename(&tmp_path, path)
StoreRename(t) ==
    /\ cs # None
    /\ LET c == cs[1] IN
       /\ StoreAt(c, t, "rename")
       /\ c.fs[tmp_path] # None
       /\ cs' = Some([c EXCEPT !.fs = IF tmp_path = "target" THEN @
                                      ELSE [target |-> @[tmp_path], tmp |-> None],
                               !.task[t].pc = "return"])
    /\ UNCHANGED <<gateway, hp, svc, bg, cls, client_headers, client_body, pt>>

\* write_atomic returns Ok(()) and so does the call
StoreWritten(t) ==
    /\ cs # None
    /\ LET c == cs[1] IN
       /\ StoreAt(c, t, "return")
       /\ cs' = Some(StoreReturn(c, t, [ok |-> TRUE, value |-> None]))
    /\ UNCHANGED <<gateway, hp, svc, bg, cls, client_headers, client_body, pt>>

\* a file call of write_atomic fails: the call returns Error::Io
StoreIoError(t) ==
    /\ cs # None
    /\ LET c == cs[1] IN
       /\ ~c.crashed
       /\ c.task[t].pc \in {"create", "write", "set_permissions", "rename"}
       /\ cs' = Some(StoreReturn(c, t, [ok |-> FALSE, value |-> None]))
    /\ UNCHANGED <<gateway, hp, svc, bg, cls, client_headers, client_body, pt>>

\* the process dies
StoreCrash ==
    /\ cs # None
    /\ ~cs[1].crashed
    /\ cs' = Some([cs[1] EXCEPT !.crashed = TRUE])
    /\ UNCHANGED <<gateway, hp, svc, bg, cls, client_headers, client_body, pt>>

\* CredentialStore::load in the next process: read_to_string and from_str
StoreLoad ==
    /\ cs # None
    /\ cs[1].crashed
    /\ cs[1].reloaded = None
    /\ cs' = Some([cs[1] EXCEPT !.reloaded = Some(from_str(cs[1].fs["target"][1].text))])
    /\ UNCHANGED <<gateway, hp, svc, bg, cls, client_headers, client_body, pt>>

InitStore ==
    /\ Parked
    /\ cls = None
    /\ pt = None
    /\ hp = None
    /\ svc = None
    /\ client_headers = PlainClient
    /\ client_body = PlainBody
    /\ cs \in {Some(StoreLoaded(EmptyMap)),
               Some(StoreLoaded([id \in {"a"} |-> Triple("a", 0)]))}

NextStore ==
    \/ \E t \in StoreTasks : \E call \in StoreCalls : StoreCall(t, call)
    \/ \E t \in StoreTasks : StoreLock(t)
    \/ \E t \in StoreTasks : StoreGet(t)
    \/ \E t \in StoreTasks : StoreInsert(t)
    \/ \E t \in StoreTasks : StoreRemove(t)
    \/ \E t \in StoreTasks : StoreGetMut(t)
    \/ \E t \in StoreTasks : StoreSetField(t)
    \/ \E t \in StoreTasks : StoreSerialize(t)
    \/ \E t \in StoreTasks : StoreCreate(t)
    \/ \E t \in StoreTasks : StoreWrite(t)
    \/ \E t \in StoreTasks : StoreSetPermissions(t)
    \/ \E t \in StoreTasks : StoreRename(t)
    \/ \E t \in StoreTasks : StoreWritten(t)
    \/ \E t \in StoreTasks : StoreIoError(t)
    \/ StoreCrash
    \/ StoreLoad

SpecStore == InitStore /\ [][NextStore]_vars


----------------------------------------------------------------------------
(* C24 *)

\* C24: when the process has died, at whatever step of whatever call, and the
\* next process loads the credential file, the file parses, and the mapping
\* loaded is either the one the file held when the last write_atomic began or
\* the one that write_atomic was given to write.
C24_AtomicWrite ==
    (cs # None /\ cs[1].reloaded # None) =>
        /\ cs[1].reloaded[1] # None
        /\ cs[1].reloaded[1] \in {cs[1].pre, Some(cs[1].post)}

\* the process died while w1's add("b") had written part of the temporary
\* file; the file loaded holds the mapping from before the call, a alone
C24_Witness ==
    /\ cs # None
    /\ cs[1].crashed
    /\ cs[1].task["w1"].pc = "write"
    /\ cs[1].task["w1"].kind = "add"
    /\ cs[1].task["w1"].id = "b"
    /\ cs[1].task["w1"].written = 2
    /\ cs[1].fs["tmp"] # None
    /\ from_str(cs[1].fs["tmp"][1].text) = None
    /\ cs[1].post = [id \in {"a", "b"} |-> Triple(id, IF id = "a" THEN 0 ELSE 1)]
    /\ cs[1].reloaded = Some(Some([id \in {"a"} |-> Triple("a", 0)]))


----------------------------------------------------------------------------
(* C25 *)

\* the steps of add, remove, update_token and save between taking the lock and
\* returning: the change of the mapping and write_atomic
MutateAndWrite ==
    {"insert", "remove", "get_mut", "set_access", "set_refresh", "set_expires",
     "serialize", "create", "write", "set_permissions", "rename", "return"}

\* each task made one call, an add, the two with different ids, and both calls
\* have returned
BothAddsReturned ==
    /\ cs # None
    /\ \A t \in StoreTasks :
          /\ cs[1].task[t].pc = "idle"
          /\ cs[1].task[t].calls = 1
          /\ cs[1].task[t].kind = "add"
          /\ cs[1].task[t].result # None
    /\ cs[1].task["w1"].id # cs[1].task["w2"].id

\* the mapping in memory and the mapping in the file both hold every id added
AllAddedPresent ==
    LET added == {cs[1].task[t].id : t \in StoreTasks}
        file == from_str(cs[1].fs["target"][1].text)
    IN /\ added \subseteq DOMAIN cs[1].state
       /\ file # None
       /\ added \subseteq DOMAIN file[1]

----------------------------------------------------------------------------
(* C26 *)

\* a credential whose three fields were written by one write: the enrolment
\* (serial 0) or the update_token or add of one task
WholeTriple(id, credential) ==
    \E k \in {0} \cup {Serial(t) : t \in StoreTasks} : credential = Triple(id, k)

\* C26: every get(id) that has returned gave None or a credential whose access
\* token, refresh token and expiry come from one single write, whatever
\* update_token calls of the same id ran beside it; and whenever no task
\* holds the lock every credential in memory is such a credential.
C26_TripleIsWhole ==
    cs # None =>
        /\ \A t \in StoreTasks :
              (/\ cs[1].task[t].kind = "get"
               /\ cs[1].task[t].result # None
               /\ cs[1].task[t].result[1].value # None)
                  => WholeTriple(cs[1].task[t].id, cs[1].task[t].result[1].value[1])
        /\ cs[1].mutex = None =>
              \A id \in DOMAIN cs[1].state : WholeTriple(id, cs[1].state[id])

\* w2's get("a") has returned the triple of w1's update_token("a"), which
\* replaced the enrolled one
C26_Witness ==
    /\ cs # None
    /\ cs[1].task["w1"].kind = "update_token"
    /\ cs[1].task["w1"].id = "a"
    /\ cs[1].task["w1"].result = Some([ok |-> TRUE, value |-> None])
    /\ cs[1].task["w2"].kind = "get"
    /\ cs[1].task["w2"].id = "a"
    /\ cs[1].task["w2"].result = Some([ok |-> TRUE, value |-> Some(Triple("a", 1))])


----------------------------------------------------------------------------
(* Pool::health and its callers *)

pool_status_empty_is_healthy(available_count, total) ==
    IF available_count = total THEN "healthy"
    ELSE IF available_count > 0 THEN "degraded"
    ELSE "unhealthy"

\* health(): let pool_status = if available_count == total && total > 0 { .. }
pool_status(available_count, total) ==
    IF available_count = total /\ total > 0 THEN "healthy"
    ELSE IF available_count > 0 THEN "degraded"
    ELSE "unhealthy"

\* health(): the entry pushed to `accounts` for one id; an id without a status
\* is reported as disabled, a cooldown with the whole seconds that remain
health_entry(sts, id, t) ==
    LET status == Get(sts, id) IN
    IF status = None THEN [id |-> id, status |-> "disabled"]
    ELSE IF status[1].tag = "Available" THEN [id |-> id, status |-> "available"]
    ELSE IF status[1].tag = "CoolingDown" THEN
        [id |-> id, status |-> "cooling_down",
         cooldown_remaining_secs |->
             IF status[1].until > t THEN (status[1].until - t) \div 1000 ELSE 0]
    ELSE [id |-> id, status |-> "disabled"]

\* health(): the JSON value, read under account_ids.read() and statuses.read()
health(ids, sts, t) ==
    LET accounts == [i \in 1..Len(ids) |-> health_entry(sts, ids[i], t)]
        count(s) == Cardinality({i \in 1..Len(ids) : accounts[i].status = s})
        available_count == count("available")
        total == Len(ids)
    IN [status |-> pool_status(available_count, total),
        accounts_total |-> total,
        accounts_available |-> available_count,
        accounts_cooling_down |-> count("cooling_down"),
        accounts_disabled |-> count("disabled"),
        accounts |-> accounts]

\* a task calls pool.health(); both read locks are held for the whole call
Health ==
    /\ CanRead(ids_lock, Caller, FALSE)
    /\ hp' = Some([ids |-> account_ids, statuses |-> statuses, now |-> now,
                   json |-> health(account_ids, statuses, now)])
    /\ UNCHANGED <<gateway, bg, cls, client_headers, client_body, pt, cs, svc>>

\* pools of up to three accounts, every credential enrolled
InitHealth ==
    /\ \E ids \in InitialPools \cup {<<"a", "b", "c">>} : PoolNew(ids)
    /\ store = [id \in AllIds |-> Enrolled(id, FarExpiry)]
    /\ disk = store
    /\ issued = 0
    /\ now = 0
    /\ max_failover_attempts = Len(account_ids)
    /\ metrics = [requests_total |-> 0, errors_total |-> 0, in_flight |-> 0]
    /\ req = [p \in Procs |-> IdleReq]
    /\ admin = IdleAdmin
    /\ sel_log = <<>>
    /\ AuxInit

\* the health endpoint is polled while errors are reported, cooldowns run out
\* and the admin removes and adds accounts
NextHealth ==
    \/ Health
    \/ \E id \in AllIds : \E c \in Classifications : ReportError(id, c)
    \/ Tick
    \/ \E id \in GatewayIds : AdminDelete(id)
    \/ AdminRemoveAccount
    \/ AdminStoreRemove
    \/ \E id \in GatewayIds : AdminAdd(id)
    \/ AdminAddAccount

SpecHealth == InitHealth /\ [][NextHealth]_vars

----------------------------------------------------------------------------
(* C27 *)

\* the accounts of the pool health() read whose status was Available then
AvailableThen ==
    {i \in 1..Len(hp[1].ids) :
        Get(hp[1].statuses, hp[1].ids[i]) = Some(Available)}

\* C27: the status health() returns is fixed by the statuses the accounts had
\* when it was called: healthy exactly when the pool is not empty and every
\* account is Available, degraded exactly when some but not all accounts are
\* Available, unhealthy exactly when none is (the empty pool included); and the
\* three counts add up to accounts_total, the length of the list.
C27_HealthMapping ==
    hp # None =>
        LET j == hp[1].json
            n == Len(hp[1].ids)
            k == Cardinality(AvailableThen)
        IN /\ j.status \in {"healthy", "degraded", "unhealthy"}
           /\ j.status = "healthy" <=> (n > 0 /\ k = n)
           /\ j.status = "degraded" <=> (k > 0 /\ k < n)
           /\ j.status = "unhealthy" <=> k = 0
           /\ j.accounts_total = n
           /\ j.accounts_available = k
           /\ j.accounts_available + j.accounts_cooling_down + j.accounts_disabled
                  = j.accounts_total

\* health() was called on a pool of three with one account Available, one
\* cooling down and one disabled, and said degraded
C27_Witness ==
    /\ hp # None
    /\ Len(hp[1].ids) = 3
    /\ hp[1].json.status = "degraded"
    /\ hp[1].json.accounts_available = 1
    /\ hp[1].json.accounts_cooling_down = 1
    /\ hp[1].json.accounts_disabled = 1


----------------------------------------------------------------------------
(* The service state machine: handle_event *)

\* events delivered to the state machine in one run
MaxEvents == 14

\* const MAX_TAILNET_RETRIES: u32 = 5
MAX_TAILNET_RETRIES == 5

\* pub const DRAIN_TIMEOUT: Duration = Duration::from_secs(5), in milliseconds
DRAIN_TIMEOUT == 5000

\* ServiceState
Initializing == [tag |-> "Initializing"]
ConnectingTailnet(retries, listen_addr) ==
    [tag |-> "ConnectingTailnet", retries |-> retries, listen_addr |-> listen_addr]
Starting(tailnet, listen_addr) ==
    [tag |-> "Starting", tailnet |-> tailnet, listen_addr |-> listen_addr]
ServiceRunning(tailnet, listen_addr) ==
    [tag |-> "Running", tailnet |-> tailnet, listen_addr |-> listen_addr]
Draining(deadline) == [tag |-> "Draining", deadline |-> deadline]
Stopped(exit_code) == [tag |-> "Stopped", exit_code |-> exit_code]
ServiceError(error, retries, listen_addr) ==
    [tag |-> "Error", error |-> error, origin |-> "Tailnet", retries |-> retries,
     listen_addr |-> listen_addr]
\* handle_event did not return: unreachable!() was executed
Panicked == [tag |-> "Panicked"]

\* ServiceAction
ConnectTailnet == [tag |-> "ConnectTailnet"]
StartListener(addr) == [tag |-> "StartListener", addr |-> addr]
ScheduleRetry(delay) == [tag |-> "ScheduleRetry", delay |-> delay]
Shutdown(exit_code) == [tag |-> "Shutdown", exit_code |-> exit_code]
NoAction == [tag |-> "None"]

\* ServiceEvent, with two listen addresses, one handle and two error texts
ServiceEvents ==
    {[tag |-> "ConfigLoaded", listen_addr |-> a] : a \in {"addr1", "addr2"}}
    \cup {[tag |-> "TailnetConnected", handle |-> "node"]}
    \cup {[tag |-> "TailnetError", error |-> e] : e \in {"timeout", "refused"}}
    \cup {[tag |-> t] : t \in {"ListenerReady", "RequestReceived", "RequestCompleted",
                               "ShutdownSignal", "DrainTimeout", "RetryTimer"}}

may_retry_inclusive(retries) == retries <= MAX_TAILNET_RETRIES

\* the guard of the retry arm: if retries < MAX_TAILNET_RETRIES
may_retry(retries) == retries < MAX_TAILNET_RETRIES

\* let delay = Duration::from_secs(2u64.pow(retries)), in seconds
backoff_delay(retries) == 2 ^ retries

\* handle_event(state, event): the arms of the match in their order
handle_event(state, event, t) ==
    LET s == state.tag
        e == event.tag
        out(st, ac) == [state |-> st, action |-> ac]
    IN
    IF s = "Initializing" /\ e = "ConfigLoaded"
    THEN out(ConnectingTailnet(0, event.listen_addr), ConnectTailnet)
    ELSE IF s = "ConnectingTailnet" /\ e = "TailnetConnected"
    THEN out(Starting(event.handle, state.listen_addr), StartListener(state.listen_addr))
    ELSE IF s = "ConnectingTailnet" /\ e = "TailnetError" /\ may_retry(state.retries)
    THEN out(ServiceError(event.error, state.retries, state.listen_addr),
             ScheduleRetry(backoff_delay(state.retries)))
    ELSE IF s = "ConnectingTailnet" /\ e = "TailnetError"
    THEN out(Stopped(1), Shutdown(1))
    ELSE IF s = "Error" /\ e = "RetryTimer"
    THEN out(ConnectingTailnet(state.retries + 1, state.listen_addr), ConnectTailnet)
    ELSE IF s = "Starting" /\ e = "ListenerReady"
    THEN out(ServiceRunning(state.tailnet, state.listen_addr), NoAction)
    ELSE IF s = "Running" /\ e \in {"RequestReceived", "RequestCompleted"}
    THEN out(Panicked, NoAction)
    ELSE IF s = "Running" /\ e = "ShutdownSignal"
    THEN out(Draining(t + DRAIN_TIMEOUT), NoAction)
    ELSE IF s = "Draining" /\ e = "DrainTimeout"
    THEN out(Stopped(0), Shutdown(0))
    ELSE IF s = "Stopped"
    THEN out(Stopped(state.exit_code), NoAction)
    ELSE IF e = "ShutdownSignal"
    THEN out(Stopped(0), Shutdown(0))
    ELSE out(state, NoAction)

\* the state machine before its first event; beside the state and the last
\* action: the delays scheduled so far, the TailnetError events delivered
\* from ConnectingTailnet { retries: 0 } until Stopped, whether the events
\* delivered in that stretch were TailnetError and RetryTimer in turn, the
\* events delivered after Stopped was reached
ServiceStart ==
    [state |-> Initializing, action |-> NoAction, delays |-> <<>>, errors |-> 0,
     alternating |-> TRUE, after_stop |-> 0, events |-> 0]

\* the caller delivers an event: let (state, action) = handle_event(state, event)
Deliver(event) ==
    /\ svc # None
    /\ svc[1].events < MaxEvents
    /\ svc[1].state.tag # "Panicked"
    /\ LET v == svc[1]
           r == handle_event(v.state, event, now)
           connecting == v.state.tag \in {"ConnectingTailnet", "Error"}
           expected == IF v.state.tag = "ConnectingTailnet" THEN "TailnetError"
                       ELSE "RetryTimer"
       IN svc' = Some([state |-> r.state,
                       action |-> r.action,
                       delays |-> IF r.action.tag = "ScheduleRetry"
                                  THEN Append(v.delays, r.action.delay) ELSE v.delays,
                       errors |-> IF event.tag = "TailnetError"
                                     /\ v.state.tag \notin {"Initializing", "Stopped"}
                                  THEN v.errors + 1 ELSE v.errors,
                       alternating |-> IF v.state.tag = "Stopped" THEN v.alternating
                                       ELSE IF v.state.tag = "Initializing"
                                       THEN r.state.tag # "Stopped"
                                       ELSE v.alternating /\ connecting
                                                /\ event.tag = expected,
                       after_stop |-> IF v.state.tag = "Stopped"
                                      THEN v.after_stop + 1 ELSE v.after_stop,
                       events |-> v.events + 1])
    /\ UNCHANGED <<gateway, bg, cls, client_headers, client_body, pt, cs, hp>>

InitService ==
    /\ Parked
    /\ cls = None
    /\ client_headers = PlainClient
    /\ client_body = PlainBody
    /\ pt = None
    /\ cs = None
    /\ hp = None
    /\ svc = Some(ServiceStart)

NextService == \E event \in ServiceEvents : Deliver(event)

SpecService == InitService /\ [][NextService]_vars

----------------------------------------------------------------------------
(* C28 *)

Backoffs == <<1, 2, 4, 8, 16>>

Min(a, b) == IF a < b THEN a ELSE b

\* C28: in every run the delays scheduled are 1, 2, 4, 8, 16 seconds in that
\* order, never more than five of them; in a run where TailnetError and
\* RetryTimer events come in turn from ConnectingTailnet { retries: 0 }, each
\* of the first five TailnetError events schedules the next delay and the sixth
\* one, and no earlier one, gives Stopped { exit_code: 1 }; and an event
\* delivered in Stopped leaves the state and its exit code as they are and
\* gives the action None.
C28_RetriesBounded ==
    /\ [](svc # None =>
            /\ Len(svc[1].delays) <= MAX_TAILNET_RETRIES
            /\ svc[1].delays = SubSeq(Backoffs, 1, Len(svc[1].delays))
            /\ (svc[1].alternating /\ svc[1].state.tag # "Initializing") =>
                  /\ svc[1].errors <= MAX_TAILNET_RETRIES + 1
                  /\ Len(svc[1].delays) = Min(svc[1].errors, MAX_TAILNET_RETRIES)
                  /\ svc[1].state.tag = "Stopped" <=> svc[1].errors = MAX_TAILNET_RETRIES + 1
                  /\ svc[1].state.tag = "Stopped" => svc[1].state = Stopped(1))
    /\ [][(svc # None /\ svc[1].state.tag = "Stopped") =>
              /\ svc'[1].state = svc[1].state
              /\ svc'[1].action = NoAction
              /\ svc'[1].delays = svc[1].delays]_vars

\* six TailnetError events with RetryTimer events between them gave the five
\* delays and then Stopped { exit_code: 1 }, and two more events changed nothing
C28_Witness ==
    /\ svc # None
    /\ svc[1].alternating
    /\ svc[1].errors = 6
    /\ svc[1].delays = Backoffs
    /\ svc[1].state = Stopped(1)
    /\ svc[1].action = NoAction
    /\ svc[1].after_stop = 2


----------------------------------------------------------------------------
(* C29 *)

\* C29 as stated: whatever max_failover_attempts is, 0 included, and whatever
\* the upstream answers, proxy_request never executes the unreachable!() that
\* follows the failover loop: no request task ends there.
C29_UnreachableNotExecuted ==
    \A p \in Procs : req[p].pc # "panic"


----------------------------------------------------------------------------
(* C30 *)

\* C30 as stated: the accounts the prepares of one inbound request selected,
\* one per failover attempt, are pairwise different: the request never gets
\* again an account it has already used and reported as QuotaExceeded.
C30_FailoverAccountsDistinct ==
    \A p \in Procs :
        \A i \in 1..Len(req[p].tried) : \A j \in 1..Len(req[p].tried) :
            i # j => req[p].tried[i] # req[p].tried[j]


----------------------------------------------------------------------------
(* One request task in OAuth mode, for every kind of inbound body *)

\* bodies: no system field, a system string, a system string that starts with
\* the prefix already, a system field that is no string, a Haiku model (in
\* mixed case), no model
ClientBodies ==
    {PlainBody,
     [model |-> Some(<<"o", "p", "u", "s">>), system |-> Some(JsonString(<<"h", "i">>))],
     [model |-> Some(<<"o", "p", "u", "s">>),
      system |-> Some(JsonString(REQUIRED_SYSTEM_PROMPT_PREFIX \o <<" ", "h", "i">>))],
     [model |-> Some(<<"o", "p", "u", "s">>), system |-> Some(JsonArray)],
     [model |-> Some(<<"H", "a", "i", "k", "u">>), system |-> Some(JsonString(<<"h", "i">>))],
     [model |-> None, system |-> Some(JsonString(<<"h", "i">>))]}

InitAttempts ==
    /\ InitGateway
    /\ bg = IdleBg
    /\ cls = None
    /\ pt = None
    /\ cs = None
    /\ hp = None
    /\ svc = None
    /\ client_headers \in {PlainClient} \cup BetaClients
    /\ client_body \in ClientBodies

\* the request task through its failover attempts, and the clock
NextAttempts ==
    \/ Ingest(Caller)
    \/ ReadBody(Caller)
    \/ SelectBegin(Caller)
    \/ SelectScan(Caller)
    \/ SelectGet(Caller)
    \/ SelectRefresh(Caller)
    \/ SelectPersist(Caller)
    \/ SelectDisable(Caller)
    \/ SelectCount(Caller)
    \/ PrepareDone(Caller)
    \/ Send(Caller)
    \/ Tick

SpecAttempts == InitAttempts /\ [][NextAttempts]_vars

----------------------------------------------------------------------------
(* C31 *)

\* C31: in every failover attempt the headers and the body handed to prepare
\* are the original filtered headers and the originally parsed body; and the
\* request the attempt sends is what prepare makes of those originals with the
\* token of the account this attempt selected: one Authorization value, the
\* bearer of that account, and a body with the prefix put in at most once.
C31_CleanSlate ==
    \A p \in Procs :
        /\ req[p].in_headers # None =>
              /\ req[p].in_headers[1] = original_headers(client_headers)
              /\ req[p].in_body[1] = client_body
        /\ req[p].pc = "send" =>
              /\ req[p].bearer[1].owner = req[p].account_id[1]
              /\ req[p].account_id[1] = req[p].tried[Len(req[p].tried)]
              /\ req[p].headers[1] =
                     oauth_prepare_headers(original_headers(client_headers),
                                           req[p].bearer[1])
              /\ req[p].headers[1][AUTHORIZATION] = <<bearer_value(req[p].bearer[1])>>
              /\ req[p].body_value[1] = inject_system_prompt(client_body)
              /\ req[p].body_value[1].system \in
                     {client_body.system,
                      Some(JsonString(REQUIRED_SYSTEM_PROMPT_PREFIX))}
                     \cup (IF client_body.system = None THEN {}
                           ELSE {Some(JsonString(REQUIRED_SYSTEM_PROMPT_PREFIX \o <<" ">>
                                                 \o client_body.system[1].text))})

\* the second attempt of a request is about to be sent: a answered 429, b was
\* selected, the request carries b's bearer alone and the client's system
\* string with the prefix before it, once
C31_Witness ==
    /\ req[Caller].pc = "send"
    /\ req[Caller].failover = 1
    /\ req[Caller].tried = <<"a", "b">>
    /\ req[Caller].bearer[1].owner = "b"
    /\ client_body.system = Some(JsonString(<<"h", "i">>))
    /\ req[Caller].body_value[1].system =
           Some(JsonString(REQUIRED_SYSTEM_PROMPT_PREFIX \o <<" ", "h", "i">>))
    /\ req[Caller].headers[1][AUTHORIZATION] = <<bearer_value(req[Caller].bearer[1])>>


----------------------------------------------------------------------------
(* C32 *)

\* select() of task p is waiting for the credential store or for the token
\* endpoint: credential_store.get, refresh_token, credential_store.update_token
AwaitsStoreOrEndpoint(p) == req[p].pc \in {"sel_get", "sel_refresh", "sel_persist"}

\* C32 as stated: while select() awaits the credential store or the token
\* endpoint it holds no lock of the pool, so the admin's add_account or
\* remove_account is never left waiting for the account-list lock by a select
\* that is in its inline refresh.
C32_NoLockAcrossAwait ==
    \A p \in Procs :
        AwaitsStoreOrEndpoint(p) =>
            /\ ids_lock.readers[p] = 0
            /\ admin.pc \notin {"rm_pool_wait", "add_pool_wait"}


----------------------------------------------------------------------------
(* C33 *)

\* C33: two select() calls that are in progress at the same time, on a pool
\* that is not empty, never hold the same cursor value, and the value each
\* holds is below the cursor: every fetch has incremented it.
C33_CursorAtomic ==
    /\ \A p \in Procs : \A q \in Procs :
          (p # q /\ req[p].cursor # None /\ req[q].cursor # None) =>
              req[p].cursor[1] # req[q].cursor[1]
    /\ \A p \in Procs : req[p].cursor # None => req[p].cursor[1] < next_index

\* two select() calls in progress hold the cursor values 0 and 1 and have both
\* settled on the same account
C33_Witness ==
    /\ req["r1"].cursor = Some(0)
    /\ req["r2"].cursor = Some(1)
    /\ req["r1"].pc = "sel_get"
    /\ req["r2"].pc = "sel_get"
    /\ Cand("r1") = Cand("r2")

----------------------------------------------------------------------------
(* Pool::add_account and Pool::remove_account statement by statement, beside
   direct callers of select, report_error and set_status (pool.rs 241-260,
   351-357).  Both hold the account-list write guard from their first
   statement to their return and change the status map in a second statement. *)

\* a task calls pool.add_account(id)
PoolCallAdd(id) ==
    /\ admin.pc = "idle"
    /\ admin.ops < MaxAdminOps
    /\ admin' = [pc |-> "add_pool", id |-> Some(id), ops |-> admin.ops + 1]
    /\ UNCHANGED <<account_ids, statuses, next_index, ids_lock, store, disk, issued,
                   now, max_failover_attempts, metrics, req, sel_log, aux>>

\* a task calls pool.remove_account(id)
PoolCallRemove(id) ==
    /\ admin.pc = "idle"
    /\ admin.ops < MaxAdminOps
    /\ admin' = [pc |-> "rm_pool", id |-> Some(id), ops |-> admin.ops + 1]
    /\ UNCHANGED <<account_ids, statuses, next_index, ids_lock, store, disk, issued,
                   now, max_failover_attempts, metrics, req, sel_log, aux>>

\* add_account, second statement, with the insert left out
add_account_status_skipped(sts, id) == sts

\* add_account: self.statuses.write().await.insert(account_id, Available)
add_account_status(sts, id) == Insert(sts, id, Available)

\* add_account: let mut ids = self.account_ids.write().await;
\*              if !ids.contains(&account_id) { ids.push(account_id) }
PoolAddPush ==
    /\ admin.pc \in {"add_pool", "add_pool_wait"}
    /\ CanWrite(ids_lock, "admin", admin.pc = "add_pool_wait")
    /\ ids_lock' = TakeWrite(ids_lock, "admin", admin.pc = "add_pool_wait")
    /\ account_ids' = IF \E i \in 1..Len(account_ids) : account_ids[i] = admin.id[1]
                      THEN account_ids ELSE Append(account_ids, admin.id[1])
    /\ admin' = [admin EXCEPT !.pc = "add_status"]
    /\ UNCHANGED <<statuses, next_index, store, disk, issued,
                   now, max_failover_attempts, metrics, req, sel_log, aux>>

\* add_account: the status insert, then the write guard is dropped
PoolAddInsert ==
    /\ admin.pc = "add_status"
    /\ statuses' = add_account_status(statuses, admin.id[1])
    /\ ids_lock' = ReleaseWrite(ids_lock)
    /\ admin' = [admin EXCEPT !.pc = "idle", !.id = None]
    /\ UNCHANGED <<account_ids, next_index, store, disk, issued,
                   now, max_failover_attempts, metrics, req, sel_log, aux>>

\* remove_account: let mut ids = self.account_ids.write().await; ids.retain(..)
PoolRemoveRetain ==
    /\ admin.pc \in {"rm_pool", "rm_pool_wait"}
    /\ CanWrite(ids_lock, "admin", admin.pc = "rm_pool_wait")
    /\ ids_lock' = TakeWrite(ids_lock, "admin", admin.pc = "rm_pool_wait")
    /\ account_ids' = retain_other(account_ids, admin.id[1])
    /\ admin' = [admin EXCEPT !.pc = "rm_status"]
    /\ UNCHANGED <<statuses, next_index, store, disk, issued,
                   now, max_failover_attempts, metrics, req, sel_log, aux>>

\* remove_account: self.statuses.write().await.remove(account_id), then the
\* write guard is dropped
PoolRemoveStatus ==
    /\ admin.pc = "rm_status"
    /\ statuses' = Remove(statuses, admin.id[1])
    /\ ids_lock' = ReleaseWrite(ids_lock)
    /\ admin' = [admin EXCEPT !.pc = "idle", !.id = None]
    /\ UNCHANGED <<account_ids, next_index, store, disk, issued,
                   now, max_failover_attempts, metrics, req, sel_log, aux>>

\* a task calls pool.set_status(id, status)
SetStatus(id, status) ==
    /\ statuses' = Insert(statuses, id, status)
    /\ UNCHANGED <<account_ids, next_index, ids_lock, store, disk, issued,
                   now, max_failover_attempts, metrics, req, admin, sel_log, aux>>

NextPool ==
    \/ ApiSelect(Caller)
    \/ SelectWait(Caller)
    \/ SelectBegin(Caller)
    \/ SelectScan(Caller)
    \/ SelectGet(Caller)
    \/ SelectCountWait(Caller)
    \/ SelectCount(Caller)
    \/ ApiSelectDrop(Caller)
    \/ \E id \in GatewayIds : PoolCallAdd(id)
    \/ \E id \in GatewayIds : PoolCallRemove(id)
    \/ AdminWait
    \/ PoolAddPush
    \/ PoolAddInsert
    \/ PoolRemoveRetain
    \/ PoolRemoveStatus
    \/ \E id \in GatewayIds : \E c \in Classifications : ReportError(id, c)
    \/ \E id \in GatewayIds : \E s \in {Available, Disabled} : SetStatus(id, s)
    \/ Tick

SpecPool == InitApi /\ [][NextPool]_vars

----------------------------------------------------------------------------
(* C34 *)

\* every account id in the ordered list has an entry in the status map
ListedHaveStatus ==
    \A i \in 1..Len(account_ids) : account_ids[i] \in DOMAIN statuses

\* C34 as stated: in every reachable state of the pool every account id in
\* the ordered list has an entry in the status map.  add_account pushes the
\* id before it inserts the status, so the state between its two statements
\* has a listed id without a status.
C34_Original == ListedHaveStatus

\* C34: under any interleaving of add_account, remove_account, report_error,
\* set_status and select, every account id in the ordered list has an entry
\* in the status map whenever no task holds the account-list write guard,
\* hence in every state in which a task can read the list; and the account
\* a select() is about to inspect has a status entry.
C34_ListedHaveStatus ==
    /\ ids_lock.writer = None => ListedHaveStatus
    /\ \A p \in Procs : req[p].pc = "sel_scan" => Cand(p) \in DOMAIN statuses

\* an added account is in the list with a status after add_account returned,
\* beside a report about an id that is not listed
C34_Witness ==
    /\ admin.pc = "idle"
    /\ admin.ops = 1
    /\ Len(account_ids) = 2
    /\ ids_lock.writer = None
    /\ "b" \in DOMAIN statuses
    /\ statuses["b"] = Available
    /\ statuses["a"] # Available
    /\ req[Caller].pc = "sel_get"

----------------------------------------------------------------------------
(* The response after the handler has returned it: build_streaming_response
   hands the server a body that reads the upstream's bytes as the client takes
   them (proxy.rs 327-347, 444-468) *)

\* the next request on a connection is read once the response before it ended
StreamIngest(p) ==
    /\ req[p].stream = None
    /\ Ingest(p)

\* Body::from_stream(upstream_response.bytes_stream()) ends: the last byte was
\* sent, the upstream failed, or the client went away
StreamEnd(p) ==
    /\ req[p].pc = "done"
    /\ req[p].stream # None
    /\ req' = [req EXCEPT ![p].stream = None]
    /\ UNCHANGED <<account_ids, statuses, next_index, ids_lock, store, disk, issued,
                   now, max_failover_attempts, metrics, admin, sel_log, aux>>

NextStreaming ==
    \/ StreamIngest(Caller)
    \/ ReadBody(Caller)
    \/ SelectBegin(Caller)
    \/ SelectScan(Caller)
    \/ SelectGet(Caller)
    \/ SelectRefresh(Caller)
    \/ SelectPersist(Caller)
    \/ SelectDisable(Caller)
    \/ SelectCount(Caller)
    \/ PrepareDone(Caller)
    \/ Send(Caller)
    \/ SendFailed(Caller)
    \/ StreamEnd(Caller)
    \/ Tick

SpecStreaming == InitPrepare /\ [][NextStreaming]_vars

----------------------------------------------------------------------------
(* C35 *)

\* the requests whose 2xx body is still being streamed to the client
Streaming == {p \in Procs : req[p].stream # None}

\* C35: a request stays counted in in_flight until its response has
\* completed: while a 2xx upstream body is still being streamed to the client
\* in_flight includes that request.  The InFlightGuard is a local of
\* proxy_request and is dropped when the handler returns the response, before
\* the body is streamed.
C35_CountedWhileStreaming ==
    metrics.in_flight >= Cardinality(Streaming)

----------------------------------------------------------------------------
(* C36 *)

\* a step of the select() call of p
SelectStep(p) ==
    \/ SelectWait(p)
    \/ SelectBegin(p)
    \/ SelectScan(p)
    \/ SelectGet(p)
    \/ SelectCountWait(p)
    \/ SelectCount(p)

\* a step of the add_account or remove_account call
PoolWriterStep ==
    \/ AdminWait
    \/ PoolAddPush
    \/ PoolAddInsert
    \/ PoolRemoveRetain
    \/ PoolRemoveStatus

\* the scheduler runs every task that can run, and the lock is fair: a task
\* that can take a step keeps being able to until it takes it
SpecPoolFair ==
    /\ InitApi
    /\ [][NextPool]_vars
    /\ WF_vars(SelectStep(Caller))
    /\ WF_vars(PoolWriterStep)

\* C36: the pool's locks never deadlock: with a fair, write-preferring
\* reader-writer lock, every select() call and every add_account or
\* remove_account call eventually returns, including a select() that finds no
\* eligible account and computes the PoolExhausted counts while an add_account
\* or remove_account waits for the account-list write lock.
C36_EveryCallReturns ==
    /\ (req[Caller].pc = "select") ~> (req[Caller].pc = "sel_ret")
    /\ (admin.pc # "idle") ~> (admin.pc = "idle")

----------------------------------------------------------------------------
(* C37 *)

\* the last call of task t was add, remove or update_token and returned an
\* error from write_atomic (update_token's NotFound comes before any change)
WriteFailed(c, t) ==
    /\ c.task[t].pc = "idle"
    /\ c.task[t].kind \in {"add", "remove", "update_token"}
    /\ c.task[t].result = Some([ok |-> FALSE, value |-> None])
    /\ ~(c.task[t].kind = "update_token" /\ c.task[t].id \notin DOMAIN c.state)

\* C37: if a persisting credential-store operation (add, remove or
\* update_token) returns an error because writing the file failed, the
\* in-memory mapping is the same as before the call, so that, once no call is
\* in progress, get() answers from a mapping equal to what a fresh load() of
\* the file returns.  The operations change the mapping before write_atomic
\* and do not undo the change when it fails.
C37_FailedWriteLeavesMemory ==
    cs # None =>
        LET c == cs[1] IN
        ( /\ ~c.crashed
          /\ \A t \in StoreTasks : c.task[t].pc = "idle"
          /\ \E t \in StoreTasks : WriteFailed(c, t) )
        => from_str(c.fs["target"][1].text) = Some(c.state)

----------------------------------------------------------------------------
(* C38 *)

\* task p returns Ok(SelectedAccount) from select() in this step
SelectReturnsOk(p) ==
    /\ req[p].pc \in {"sel_get", "sel_persist"}
    /\ req'[p].pc = "sel_ret"
    /\ req'[p].result[1].ok

\* C38: the access token in a SelectedAccount always belongs to the returned
\* account id, under any interleaving with other selects and refreshes: the id
\* is the one the scan stopped at, and the token is either the access value
\* the credential store holds for that id when select() reads it, or the
\* access token the endpoint issued for the refresh token select() read from
\* that id's entry; every result a task holds carries a token of its id.
C38_TokenBelongs ==
    /\ [](\A p \in Procs :
            (req[p].result # None /\ req[p].result[1].ok) =>
                /\ req[p].result[1].access_token.kind = "at"
                /\ req[p].result[1].access_token.owner = req[p].result[1].id)
    /\ [][\A p \in Procs :
            SelectReturnsOk(p) =>
                LET res == req'[p].result[1] IN
                /\ res.id = Cand(p)
                /\ res.access_token.owner = res.id
                /\ IF req[p].pc = "sel_get"
                   THEN /\ Get(store, res.id) # None
                        /\ res.access_token = Get(store, res.id)[1].access
                   ELSE /\ req[p].credential[1].refresh.owner = res.id
                        /\ res.access_token = req[p].token_response[1].access_token
                        /\ res.access_token.owner = req[p].credential[1].refresh.owner
                        /\ res.access_token.n > req[p].credential[1].refresh.n]_vars

\* two selects have returned together: one with the token it obtained by an
\* inline refresh of a, the other with the stored token of b
C38_Witness ==
    /\ req["r1"].pc = "sel_ret"
    /\ req["r2"].pc = "sel_ret"
    /\ req["r1"].result = Some(SelectedAccount("a", AccessToken("a", 1)))
    /\ req["r2"].result = Some(SelectedAccount("b", AccessToken("b", 0)))

----------------------------------------------------------------------------
(* The admin handler deleting accounts beside the refresher and a caller of
   select() whose token may be refreshed inline *)

NextRemoval ==
    \/ ApiSelect(Caller)
    \/ SelectWait(Caller)
    \/ SelectBegin(Caller)
    \/ SelectScan(Caller)
    \/ SelectGet(Caller)
    \/ SelectRefresh(Caller)
    \/ SelectPersist(Caller)
    \/ SelectDisable(Caller)
    \/ SelectCountWait(Caller)
    \/ SelectCount(Caller)
    \/ ApiSelectDrop(Caller)
    \/ \E id \in GatewayIds : AdminDelete(id)
    \/ AdminWait
    \/ AdminRemoveAccount
    \/ AdminStoreRemove
    \/ BgCycle
    \/ BgGet
    \/ BgRefresh
    \/ BgPersist
    \/ Tick

\* the gateway started with one account
InitRemoval == Init /\ Len(account_ids) = 1

SpecRemoval == InitRemoval /\ [][NextRemoval]_vars

----------------------------------------------------------------------------
(* C39 *)

\* a refresh, inline or in the background, ends with its update_token
RefreshPersists ==
    \/ bg.pc = "persist" /\ bg'.pc # "persist"
    \/ \E p \in Procs : req[p].pc = "sel_persist" /\ req'[p].pc # "sel_persist"

\* C39: a credential removed from the credential store is never re-created by
\* a token refresh: the update_token that ends an inline or a background
\* refresh adds no entry to the mapping or to the file, so when remove(id) has
\* completed while the refresh of id was in flight the store has no entry for
\* id after the refresh has finished.
C39_NoResurrection ==
    /\ [][RefreshPersists =>
            /\ DOMAIN store' \subseteq DOMAIN store
            /\ DOMAIN disk' \subseteq DOMAIN disk]_vars
    /\ [](\A id \in GatewayIds :
            ( /\ bg.persisted # None
              /\ bg.persisted[1].id = id
              /\ ~bg.persisted[1].found
              /\ bg.pc # "persist" ) =>
                id \notin DOMAIN store)

\* the refresher read the credential of a and was answered by the endpoint,
\* the handler removed a from the store meanwhile, and the refresher's
\* update_token has returned NotFound
C39_Witness ==
    /\ bg.persisted # None
    /\ bg.persisted[1].id = "a"
    /\ ~bg.persisted[1].found
    /\ bg.log # <<>>
    /\ bg.log[Len(bg.log)] = [id |-> "a", outcome |-> "ok"]
    /\ admin.pc = "idle"
    /\ admin.ops = 1
    /\ issued = 1
    /\ "a" \notin DOMAIN store
    /\ "a" \notin DOMAIN disk

----------------------------------------------------------------------------
(* C40 *)

\* a step of the refresher other than the handling of a refresh error
RefresherStepWithoutError ==
    /\ bg' # bg
    /\ ~(bg.pc = "refresh" /\ Len(bg'.log) = Len(bg.log) + 1)

\* C40: a successful background refresh changes only the credential store:
\* no step of refresh_cycle other than the handling of an endpoint error
\* changes the pool's account list, cursor or any account's status, so an
\* account that is Disabled or CoolingDown keeps that status after its token
\* has been refreshed, and the update_token step changes nothing but the
\* store and its file.
C40_RefreshOnlyStore ==
    [][/\ RefresherStepWithoutError =>
            /\ account_ids' = account_ids
            /\ next_index' = next_index
            /\ statuses' = statuses
       /\ (bg.pc = "persist" /\ bg'.pc # "persist") =>
            /\ statuses' = statuses
            /\ UNCHANGED <<account_ids, next_index, ids_lock, issued, now,
                           max_failover_attempts, metrics, req, admin, sel_log>>
            /\ bg.persisted' # None
            /\ bg.persisted'[1].status = Get(statuses', bg.persisted'[1].id)]_vars

\* the token of a was refreshed and stored while a was Disabled, and a is
\* still Disabled
C40_Witness ==
    /\ bg.persisted = Some([id |-> "a", found |-> TRUE, status |-> Some(Disabled)])
    /\ bg.pc # "persist"
    /\ Get(statuses, "a") = Some(Disabled)
    /\ "a" \in DOMAIN store
    /\ store["a"].access = AccessToken("a", 1)
    /\ disk = store

====
